---- MODULE Spec2Model ----
(***************************************************************************)
(* A model of the GRANDPA justification verifier circuit of vectorx:       *)
(*   circuits/src/utils.rs      int_div, random_access_vec                  *)
(*   circuits/src/encoding.rs   decode_compact_int, decode_header           *)
(*   circuits/src/consensus.rs  build_grandpa_justification_verifier        *)
(* and of the main loop of the operator that requests its proofs:          *)
(*   offchain_actors/src/operator.rs  main_loop                             *)
(* Field elements of the proving system are 64-bit values; they are kept   *)
(* as sequences of eight base-256 limbs, least significant first, because  *)
(* the values the circuit handles (up to 2^32 and beyond) do not fit the   *)
(* integers of the model checker.                                          *)
(***************************************************************************)
EXTENDS Integers, Sequences, FiniteSets, TLC

VARIABLES
    \* build_grandpa_justification_verifier
    pc,                         \* the statement the builder is at
    max_encoded_header_length,  \* its second argument
    num_validators,             \* its third argument
    builder,                    \* what has been emitted into the CircuitBuilder
    grandpa_justif_targets,     \* the returned GrandpaJustificationVerifierTargets
    \* the decoders run on constant inputs (encoding.rs tests)
    dpc,                        \* the step of the run
    expected_int,               \* the integer to encode, a u32 as four limbs
    expected_parent_hash,       \* the parent hash to encode
    expected_state_root,        \* the state root to encode
    encoded_bytes,              \* the five bytes given to decode_compact_int
    decoded_compact,            \* what decode_compact_int returned
    header_bytes_target,        \* the bytes given to decode_header
    header_size_target,         \* the header_size given with them
    decoded_header,             \* what decode_header returned
    \* a proof attempt on the built circuit (generate_proof)
    wpc,                        \* the step of the attempt
    inputs,                     \* encoded_header, encoded_message, signatures, pub_keys
    pw,                         \* the PartialWitness: a value for each target set
    perturbed,                  \* what was changed in pw after the driver set it
    proof,                      \* the outcome of prove(pw)
    \* int_div on two values (utils.rs)
    ipc,                        \* the step of the call
    int_div_args,               \* the values of the dividend and divisor targets
    int_div_witness,            \* the values of the quotient and remainder targets
    \* main_loop of the operator (operator.rs)
    opc,                        \* the statement the loop is at
    header_sub,                 \* headers the subscription has yet to yield
    justification_sub,          \* justifications the subscription has yet to yield
    last_processed_block_num,   \* None (0) or the number last proved up to
    headers,                    \* the numbers of the headers kept in the map
    justification_to_process,   \* None (<<>>) or <<the justification saved>>
    requests,                   \* calls of submit_proof_gen_request made and not returned
    proof_gen_call,             \* None (<<>>) or the last call of submit_proof_gen_request
    \* generate_proof called by main (grandpa_justif_proof_generator.rs)
    gpc,                        \* the statement main or generate_proof is at
    generate_args,              \* the header, the pairs and whether they satisfy the circuit
    generate_pw,                \* how much of the PartialWitness is set
    generate_result             \* nothing (<<>>) or <<what generate_proof returned>>

buildVars  == <<pc, max_encoded_header_length, num_validators, builder,
                grandpa_justif_targets>>
decodeVars == <<dpc, expected_int, expected_parent_hash, expected_state_root,
                encoded_bytes, decoded_compact, header_bytes_target, header_size_target,
                decoded_header>>
decodeInputs == <<expected_int, expected_parent_hash, expected_state_root>>
proveVars == <<wpc, inputs, pw, perturbed, proof>>
divVars == <<ipc, int_div_args, int_div_witness>>
operatorVars == <<opc, header_sub, justification_sub, last_processed_block_num,
                  headers, justification_to_process, requests, proof_gen_call>>
generateVars == <<gpc, generate_args, generate_pw, generate_result>>
vars == <<buildVars, decodeVars, proveVars, divVars, operatorVars, generateVars>>

(***************************************************************************)
(* Program constants.                                                      *)
(***************************************************************************)
ENCODED_MESSAGE_LENGTH == 53
CHUNK_128_BYTES == 128
HASH_SIZE == 32
MAX_BLOCK_NUMBER_SIZE == 5
MAX_HEADER_SIZE == CHUNK_128_BYTES * 10

(***************************************************************************)
(* Arithmetic of the field F = GF(2^64 - 2^32 + 1) on limb sequences.      *)
(***************************************************************************)
FieldOrder == <<1, 0, 0, 0, 255, 255, 255, 255>>

Zeros(n) == SubSeq([i \in 1..n |-> 0], 1, n)

Pow2(n) == <<1, 2, 4, 8, 16, 32, 64, 128, 256>>[n + 1]

\* The limbs of a non-negative integer below 2^31, padded to n limbs.
IntLimbs(x, n) ==
    SubSeq([i \in 1..n |->
               IF i = 1 THEN x % 256
               ELSE IF i = 2 THEN (x \div 256) % 256
               ELSE IF i = 3 THEN (x \div 65536) % 256
               ELSE IF i = 4 THEN x \div 16777216
               ELSE 0], 1, n)

\* F::from_canonical_u8 / u16 / u32 / usize of a small integer.
FromCanonical(x) == IntLimbs(x, 8)

\* The arithmetic below is on sequences of digits; each is a function of
\* its operands.
Digits == Seq(Nat)

\* The limbs of a sequence of digits below 511: the carry into a position
\* comes from the nearest lower digit above 255 when every digit between
\* the two is 255.
CarryInto[s \in Digits, i \in Nat] ==
    IF \E j \in 1..(i - 1) : s[j] >= 256 /\ \A k \in (j + 1)..(i - 1) : s[k] = 255
    THEN 1 ELSE 0

\* a + b + c on limb sequences of equal length; one limb longer than a.
AddLimbs[a \in Digits, b \in Digits, c \in Nat] ==
    LET n == Len(a)
        s == SubSeq([i \in 1..n |-> a[i] + b[i] + (IF i = 1 THEN c ELSE 0)], 1, n)
    IN  SubSeq([i \in 1..(n + 1) |->
                   IF i <= n THEN (s[i] + CarryInto[s, i]) % 256 ELSE CarryInto[s, i]],
               1, n + 1)

\* The borrow into a position of a digit-wise difference.
BorrowInto[t \in Seq(Int), i \in Nat] ==
    IF \E j \in 1..(i - 1) : t[j] < 0 /\ \A k \in (j + 1)..(i - 1) : t[k] = 0
    THEN 1 ELSE 0

\* a - b - c on limb sequences of equal length, for a >= b + c.
SubLimbs[a \in Digits, b \in Digits, c \in Nat] ==
    LET n == Len(a)
        t == SubSeq([i \in 1..n |-> a[i] - b[i] - (IF i = 1 THEN c ELSE 0)], 1, n)
    IN  SubSeq([i \in 1..n |-> (t[i] - BorrowInto[t, i] + 512) % 256], 1, n)

\* a >= b on limb sequences of equal length.
GeLimbs[a \in Digits, b \in Digits] ==
    ~ \E j \in 1..Len(a) : a[j] < b[j] /\ \A k \in (j + 1)..Len(a) : a[k] = b[k]

\* One pass of carries: each digit keeps its low byte and takes the rest
\* of the digit below.
CarryPass[x \in Digits] ==
    SubSeq([k \in 1..Len(x) |->
               (x[k] % 256) + (IF k > 1 THEN x[k - 1] \div 256 ELSE 0)], 1, Len(x))

\* The limbs of a sequence of digits below 2^31 whose value fits its length.
Normalize[x \in Digits] ==
    SubSeq(AddLimbs[CarryPass[CarryPass[CarryPass[x]]], Zeros(Len(x)), 0], 1, Len(x))

\* a * k + c for a small factor k; one limb longer than a.
ScaleLimbs[a \in Digits, k \in Nat, c \in Nat] ==
    Normalize[SubSeq([i \in 1..(Len(a) + 1) |->
                         (IF i <= Len(a) THEN a[i] * k ELSE 0) + (IF i = 1 THEN c ELSE 0)],
                     1, Len(a) + 1)]

\* The number of limbs of b up to its most significant non-zero limb.
TopLimb(b) ==
    IF \A i \in 1..Len(b) : b[i] = 0 THEN 0
    ELSE CHOOSE i \in 1..Len(b) : b[i] # 0 /\ \A j \in (i + 1)..Len(b) : b[j] = 0

\* a[k - j + 1] * b[j] where both exist, for j up to top.
Term(a, b, top, k, j) ==
    IF j <= top /\ k - j + 1 >= 1 /\ k - j + 1 <= Len(a) THEN a[k - j + 1] * b[j] ELSE 0

\* The product of two limb sequences of at most eight limbs each,
\* Len(a) + Len(b) limbs: column sums, then carries.
MulLimbs[a \in Digits, b \in Digits] ==
    LET top == TopLimb(b)
    IN  Normalize[SubSeq([k \in 1..(Len(a) + Len(b)) |->
                             Term(a, b, top, k, 1) + Term(a, b, top, k, 2)
                             + Term(a, b, top, k, 3) + Term(a, b, top, k, 4)
                             + Term(a, b, top, k, 5) + Term(a, b, top, k, 6)
                             + Term(a, b, top, k, 7) + Term(a, b, top, k, 8)],
                         1, Len(a) + Len(b))]

\* A nine-limb value with FieldOrder taken off once if it is not below it.
CondSub9[z \in Digits] ==
    IF GeLimbs[z, FieldOrder \o <<0>>] THEN SubLimbs[z, FieldOrder \o <<0>>, 0] ELSE z

\* A nine-limb value below twice FieldOrder brought into [0, FieldOrder).
CondSub[z \in Digits] == SubSeq(CondSub9[z], 1, 8)

\* x mod FieldOrder for sixteen limbs, as four words x0..x3 of 32 bits:
\* 2^64 = 2^32 - 1 and 2^96 = -1 in F, so
\* x = (x0 + 2^32 * (x1 + x2)) - (x2 + x3) in F.
ModP[x \in Digits] ==
    LET x0 == SubSeq(x, 1, 4)
        x1 == SubSeq(x, 5, 8)
        x2 == SubSeq(x, 9, 12)
        x3 == SubSeq(x, 13, 16)
        plus  == AddLimbs[x0 \o x1, Zeros(4) \o x2, 0]
        minus == AddLimbs[x2 \o Zeros(4), x3 \o Zeros(4), 0]
        diff  == SubLimbs[AddLimbs[plus, FieldOrder \o <<0>>, 0], minus \o <<0>>, 0]
    IN  CondSub[CondSub9[CondSub9[SubSeq(diff, 1, 9)]]]

\* CircuitBuilder::add, mul and sub on witness values.
FAdd[a \in Digits, b \in Digits] == CondSub[AddLimbs[a, b, 0]]

FMul[a \in Digits, b \in Digits] == ModP[MulLimbs[a, b]]

FSub[a \in Digits, b \in Digits] ==
    IF GeLimbs[a, b] THEN SubLimbs[a, b, 0]
    ELSE SubSeq(SubLimbs[AddLimbs[a, FieldOrder, 0], b \o <<0>>, 0], 1, 8)

\* reduce(base, terms) = sum of terms[i] * base^i, by Horner's rule.
RECURSIVE ReduceFrom(_, _, _)
ReduceFrom(base, terms, i) ==
    IF i > Len(terms) THEN Zeros(8)
    ELSE FAdd[terms[i], FMul[ReduceFrom(base, terms, i + 1), FromCanonical(base)]]

Reduce(base, terms) == ReduceFrom(base, terms, 1)

(***************************************************************************)
(* Gates of the proving system, on witness values.  A byte or bit target   *)
(* holds a small integer; an arithmetic target holds a field element.      *)
(***************************************************************************)
\* split_le(x, n): the n little-endian bits of x; unsatisfiable for x >= 2^n.
SplitLeSat(x, n) == x >= 0 /\ x < Pow2(n)
SplitLe(x, n) == [j \in 1..n |-> (x \div Pow2(j - 1)) % 2]

\* le_sum(bits): the integer whose little-endian bits are given, for at
\* most eight bits.
BitTerm(bits, j) == IF j <= Len(bits) THEN bits[j] * Pow2(j - 1) ELSE 0

LeSum(bits) ==
    LET b == SubSeq(bits, 1, Len(bits))
    IN  BitTerm(b, 1) + BitTerm(b, 2) + BitTerm(b, 3) + BitTerm(b, 4)
        + BitTerm(b, 5) + BitTerm(b, 6) + BitTerm(b, 7) + BitTerm(b, 8)

\* random_access(index, list) = list[index], indices counted from 0.
RandomAccess(index, list) == list[index + 1]

\* select(b, x, y) = if b then x else y.
Select(b, x, y) == IF b THEN x ELSE y

\* range_check(x, n)
RangeCheck(x, n) == x >= 0 /\ x < Pow2(n)

(***************************************************************************)
(* utils.rs: int_div and its witness generator.                            *)
(***************************************************************************)
\* u32 division, one bit of the dividend at a time from the top: the
\* bits of one limb from bit k down.
DivBits[limb \in Nat, d \in Digits, k \in Int, digit \in Nat, r \in Digits] ==
    IF k < 0 THEN [digit |-> digit, remainder |-> r]
    ELSE LET r2 == AddLimbs[r, r, (limb \div Pow2(k)) % 2]
         IN  IF GeLimbs[r2, d \o <<0>>]
             THEN DivBits[limb, d, k - 1, digit + Pow2(k),
                          SubSeq(SubLimbs[r2, d \o <<0>>, 0], 1, 4)]
             ELSE DivBits[limb, d, k - 1, digit, SubSeq(r2, 1, 4)]

\* The limbs of the dividend from limb k down.
DivStep[a \in Digits, d \in Digits, k \in Nat, q \in Digits, r \in Digits] ==
    IF k = 0 THEN [quotient |-> q, remainder |-> r]
    ELSE LET s == DivBits[a[k], d, 7, 0, r]
         IN  DivStep[a, d, k - 1, [q EXCEPT ![k] = s.digit], s.remainder]

\* A generator that cuts both values to u16 before dividing.
FloorDivGeneratorU16(dividend, divisor) ==
    LET divisor_int  == SubSeq(divisor, 1, 2) \o Zeros(2)
        dividend_int == SubSeq(dividend, 1, 2) \o Zeros(2)
    IN  IF divisor_int = Zeros(4)
        THEN [panicked |-> TRUE, quotient |-> Zeros(8), remainder |-> Zeros(8)]
        ELSE LET qr == DivStep[dividend_int, divisor_int, 4, Zeros(4), Zeros(4)]
             IN  [panicked  |-> FALSE,
                  quotient  |-> qr.quotient \o Zeros(4),
                  remainder |-> qr.remainder \o Zeros(4)]

\* FloorDivGenerator::run_once: both values are cut to u32, then divided.
\* A zero divisor panics in the generator (panicked = TRUE).
FloorDivGenerator(dividend, divisor) ==
    LET divisor_int  == SubSeq(divisor, 1, 4)
        dividend_int == SubSeq(dividend, 1, 4)
    IN  IF divisor_int = Zeros(4)
        THEN [panicked |-> TRUE, quotient |-> Zeros(8), remainder |-> Zeros(8)]
        ELSE LET qr == DivStep[dividend_int, divisor_int, 4, Zeros(4), Zeros(4)]
             IN  [panicked  |-> FALSE,
                  quotient  |-> qr.quotient \o Zeros(4),
                  remainder |-> qr.remainder \o Zeros(4)]

\* The constraint with a remainder kept below the divisor as well.
IntDivConstraintRanged(dividend, divisor, quotient, remainder) ==
    /\ FAdd[FMul[quotient, divisor], remainder] = dividend
    /\ ~GeLimbs[remainder, divisor]

\* The one constraint int_div emits: quotient * divisor + remainder = dividend.
IntDivConstraint(dividend, divisor, quotient, remainder) ==
    FAdd[FMul[quotient, divisor], remainder] = dividend

(***************************************************************************)
(* encoding.rs: decode_compact_int.  compact_bytes are the witness values  *)
(* of the five byte targets; quotient and remainder are the values of the  *)
(* two targets int_div allocates.                                          *)
(***************************************************************************)
Limbs(bytes) == SubSeq([i \in 1..Len(bytes) |-> FromCanonical(bytes[i])], 1, Len(bytes))

CompressMode(compact_bytes) == LeSum(SubSeq(SplitLe(compact_bytes[1], 8), 1, 2))

\* A selection whose two-byte candidate reads a third byte.
CompactValueThreeBytes(compact_bytes) ==
    LET zero_mode_value  == FromCanonical(compact_bytes[1])
        one_mode_value   == Reduce(256, Limbs(SubSeq(compact_bytes, 1, 3)))
        two_mode_value   == Reduce(256, Limbs(SubSeq(compact_bytes, 1, 4)))
        three_mode_value == Reduce(256, Limbs(SubSeq(compact_bytes, 2, 5)))
    IN  RandomAccess(CompressMode(compact_bytes),
                     <<zero_mode_value, one_mode_value, two_mode_value, three_mode_value>>)

\* The value selected by random_access among the four candidate reductions.
CompactValue(compact_bytes) ==
    LET zero_mode_value  == FromCanonical(compact_bytes[1])
        one_mode_value   == Reduce(256, Limbs(SubSeq(compact_bytes, 1, 2)))
        two_mode_value   == Reduce(256, Limbs(SubSeq(compact_bytes, 1, 4)))
        three_mode_value == Reduce(256, Limbs(SubSeq(compact_bytes, 2, 5)))
    IN  RandomAccess(CompressMode(compact_bytes),
                     <<zero_mode_value, one_mode_value, two_mode_value, three_mode_value>>)

\* The arguments of an int_div made on the first byte of the window.
IntDivCallFirstByte(compact_bytes) ==
    [dividend |-> FromCanonical(compact_bytes[1]), divisor |-> FromCanonical(4)]

\* int_div(value, four): the arguments of the one call of int_div.
IntDivCall(compact_bytes) ==
    [dividend |-> CompactValue(compact_bytes), divisor |-> FromCanonical(4)]

\* A decoder that takes the length of mode 3 from the upper six bits of
\* the first byte: 4 bytes and as many more, after the first.
DecodeCompactIntLongLength(compact_bytes, quotient) ==
    LET compress_mode == CompressMode(compact_bytes)
        value         == CompactValue(compact_bytes)
    IN  [decoded_int         |-> Select(compress_mode # 3, quotient, value),
         compress_mode       |-> compress_mode,
         encoded_byte_length |->
             RandomAccess(compress_mode, <<1, 2, 4, 5 + compact_bytes[1] \div 4>>)]

\* A decoder that returns the quotient in every mode, without the select.
DecodeCompactIntNoSelect(compact_bytes, quotient) ==
    LET compress_mode == CompressMode(compact_bytes)
    IN  [decoded_int         |-> quotient,
         compress_mode       |-> compress_mode,
         encoded_byte_length |-> RandomAccess(compress_mode, <<1, 2, 4, 5>>)]

\* The three targets decode_compact_int returns.
DecodeCompactInt(compact_bytes, quotient) ==
    LET compress_mode == CompressMode(compact_bytes)
        value         == CompactValue(compact_bytes)
        is_eq_three   == compress_mode = 3
        div_by_4      == ~is_eq_three
    IN  [decoded_int         |-> Select(div_by_4, quotient, value),
         compress_mode       |-> compress_mode,
         encoded_byte_length |-> RandomAccess(compress_mode, <<1, 2, 4, 5>>)]

\* The constraints decode_compact_int emits: the bit split of the first
\* byte and the constraint of int_div(value, 4).
DecodeCompactIntSat(compact_bytes, quotient, remainder) ==
    /\ Len(compact_bytes) = 5
    /\ SplitLeSat(compact_bytes[1], 8)
    /\ IntDivConstraint(IntDivCall(compact_bytes).dividend, IntDivCall(compact_bytes).divisor,
                        quotient, remainder)

\* The assignment the witness generator of int_div(value, 4) produces.
CompactDivWitness(compact_bytes) ==
    FloorDivGenerator(IntDivCall(compact_bytes).dividend, IntDivCall(compact_bytes).divisor)

(***************************************************************************)
(* encoding.rs: decode_header on the witness values of header_bytes.       *)
(* A slice that reaches past the end of header_bytes panics.               *)
(***************************************************************************)
\* A decoder that reads up to the least size of a header.
DecodeHeaderPanicsBelowMin(header_bytes) == Len(header_bytes) < 98

DecodeHeaderPanics(header_bytes) == Len(header_bytes) < 37 + HASH_SIZE

\* random_access_vec(index, targets): random_access column by column.
RandomAccessVec(index, targets) ==
    [i \in 1..Len(targets[1]) |->
        RandomAccess(index, [t \in 1..Len(targets) |-> targets[t][i]])]

\* A decoder that takes the state root after a one-byte block number.
DecodeHeaderFirstRoot(header_bytes, quotient) ==
    LET compact == DecodeCompactInt(
                       SubSeq(header_bytes, 33, 32 + MAX_BLOCK_NUMBER_SIZE), quotient)
    IN  [parent_hash  |-> SubSeq(header_bytes, 1, 32),
         block_number |-> compact.decoded_int,
         state_root   |-> SubSeq(header_bytes, 34, 33 + HASH_SIZE)]

DecodeHeader(header_bytes, quotient) ==
    LET parent_hash_target == SubSeq(header_bytes, 1, 32)
        compact == DecodeCompactInt(
                       SubSeq(header_bytes, 33, 32 + MAX_BLOCK_NUMBER_SIZE), quotient)
        all_possible_state_roots ==
            << SubSeq(header_bytes, 34, 33 + HASH_SIZE),
               SubSeq(header_bytes, 35, 34 + HASH_SIZE),
               SubSeq(header_bytes, 37, 36 + HASH_SIZE),
               SubSeq(header_bytes, 38, 37 + HASH_SIZE) >>
    IN  [parent_hash  |-> parent_hash_target,
         block_number |-> compact.decoded_int,
         state_root   |-> RandomAccessVec(compact.compress_mode, all_possible_state_roots)]

DecodeHeaderSat(header_bytes, quotient, remainder) ==
    DecodeCompactIntSat(SubSeq(header_bytes, 33, 32 + MAX_BLOCK_NUMBER_SIZE),
                        quotient, remainder)

HeaderDivWitness(header_bytes) ==
    CompactDivWitness(SubSeq(header_bytes, 33, 32 + MAX_BLOCK_NUMBER_SIZE))

(***************************************************************************)
(* The SCALE encoder of the chain (the inverse the decoders are tested     *)
(* against): a u32 is four limbs, least significant first.                 *)
(***************************************************************************)
CompactEncode(v) ==
    IF v[2] = 0 /\ v[3] = 0 /\ v[4] = 0 /\ v[1] < 64
        THEN <<v[1] * 4>>
    ELSE IF v[3] = 0 /\ v[4] = 0 /\ v[2] < 64
        THEN SubSeq(ScaleLimbs[v, 4, 1], 1, 2)
    ELSE IF v[4] < 64
        THEN SubSeq(ScaleLimbs[v, 4, 2], 1, 4)
    ELSE <<3>> \o v

PadZeros(bytes, n) == [i \in 1..n |-> IF i <= Len(bytes) THEN bytes[i] ELSE 0]

\* parent hash, compact block number, state root, then the rest of the header.
EncodeHeader(parent_hash, number, state_root, rest) ==
    parent_hash \o CompactEncode(number) \o state_root \o rest

(***************************************************************************)
(* consensus.rs: build_grandpa_justification_verifier.                     *)
(*                                                                         *)
(* A target is a triple <<kind, k, i>>.  The builder is a record of what   *)
(* has been emitted so far:                                                *)
(*   range_checks   the set of <<target, bits>> range checks               *)
(*   splits         the set of <<target, bits>> bit decompositions         *)
(*   connects       the set of <<a, b>> copy constraints between targets   *)
(*   decoder_input, blake_message, blake_message_len, eddsa[k].msg         *)
(*                  for each input of a gadget, the target connected to it *)
(*   digest_bytes   for each le_sum over digest bits, its bit indices      *)
(*   block_num_terms  the terms of reduce_with_powers_circuit              *)
(***************************************************************************)
HeaderTarget(i)     == <<"encoded_header", i, 0>>
HeaderBit(i, j)     == <<"encoded_header.bit", i, j>>
MessageTarget(i)    == <<"encoded_message", i, 0>>
MessageBit(i, j)    == <<"encoded_message.bit", i, j>>
HeaderLengthTarget  == <<"encoded_header_length", 0, 0>>
ConstantTarget(c)   == <<"constant", c, 0>>
DigestByteTarget(i) == <<"digest_byte", i, 0>>
MessageBlockNum     == <<"encoded_message_block_num", 0, 0>>
DecoderBlockNum     == <<"block_num", 0, 0>>
SignatureTarget(k)  == <<"eddsa.sig", k, 0>>
PublicKeyTarget(k)  == <<"eddsa.pub_key", k, 0>>

NewBuilder ==
    [encoded_header        |-> <<>>,
     range_checks          |-> {},
     splits                |-> {},
     connects              |-> {},
     decoder_input         |-> <<>>,
     blake_message_bits    |-> 0,
     blake_digest_bits     |-> 0,
     blake_message         |-> <<>>,
     blake_message_len     |-> <<>>,
     encoded_header_length |-> <<>>,
     encoded_message       |-> <<>>,
     digest_bytes          |-> <<>>,
     block_num_terms       |-> <<>>,
     encoded_msg_bits      |-> <<>>,
     eddsa                 |-> <<>>,
     signatures            |-> <<>>,
     pub_keys              |-> <<>>]

\* lines 41-44: one virtual target per header byte.
AllocHeader(b, max_len) ==
    [b EXCEPT !.encoded_header = [i \in 1..max_len |-> HeaderTarget(i - 1)]]

\* lines 47-49: range check of every header target to 8 bits.
RangeCheckHeader(b, max_len) ==
    [b EXCEPT !.range_checks =
        @ \cup {<<b.encoded_header[i + 1], 8>> : i \in 0..(max_len - 1)}]

\* lines 51-56: the header decoder over max_len of its own input targets,
\* each connected to the header target of the same index.
ConnectDecoder(b, max_len) ==
    [b EXCEPT !.decoder_input = [i \in 1..max_len |-> b.encoded_header[i]]]

\* lines 58-62: the Blake2b gadget, with a message of ten 128-byte chunks
\* and a digest of 32 bytes.
MakeBlake2b(b) ==
    [b EXCEPT !.blake_message_bits = CHUNK_128_BYTES * 8 * 10,
              !.blake_digest_bits  = 32 * 8]

\* lines 63-70: the header bytes that can be wired before an index into
\* blake2_target.message leaves the vector.
BlakeWired(b, max_len) ==
    IF max_len * 8 <= b.blake_message_bits THEN max_len
    ELSE b.blake_message_bits \div 8

BlakeLoopPanics(b, max_len) == max_len * 8 > b.blake_message_bits

\* The bits of a byte left in the order split_le returns them.
SameBit(j) == j

\* bits.reverse(): position j of the reversed vector is little-endian bit 7 - j.
ReversedBit(j) == 7 - j

ConnectBlake(b, max_len) ==
    LET n == BlakeWired(b, max_len)
    IN  [b EXCEPT
           !.splits = @ \cup {<<b.encoded_header[i + 1], 8>> : i \in 0..(n - 1)},
           !.blake_message =
               [m \in 1..(n * 8) |->
                   HeaderBit((m - 1) \div 8, ReversedBit((m - 1) % 8))]]

\* lines 72-73: the length target, connected to the gadget's message_len.
ConnectLength(b) ==
    [b EXCEPT !.encoded_header_length = <<HeaderLengthTarget>>,
              !.blake_message_len     = <<HeaderLengthTarget>>]

\* lines 75-78: one virtual target per message byte.
AllocMessage(b) ==
    [b EXCEPT !.encoded_message =
        [i \in 1..ENCODED_MESSAGE_LENGTH |-> MessageTarget(i - 1)]]

\* A loop that stops one target short of the end of the message.
RangeCheckMessageShort(b) ==
    [b EXCEPT !.range_checks =
        @ \cup {<<b.encoded_message[i + 1], 8>> : i \in 0..(ENCODED_MESSAGE_LENGTH - 2)}]

\* lines 81-83: range check of every message target to 8 bits.
RangeCheckMessage(b) ==
    [b EXCEPT !.range_checks =
        @ \cup {<<b.encoded_message[i + 1], 8>> : i \in 0..(ENCODED_MESSAGE_LENGTH - 1)}]

\* The first byte connected to the constant 0 in place of the constant 1.
ConnectTagZero(b) ==
    [b EXCEPT !.connects = @ \cup {<<b.encoded_message[1], ConstantTarget(0)>>}]

\* lines 87-88: the first byte is connected to the constant 1.
ConnectTag(b) ==
    [b EXCEPT !.connects = @ \cup {<<b.encoded_message[1], ConstantTarget(1)>>}]

\* lines 94-100: le_sum over each 8-bit chunk of the digest, reversed, and
\* its connection to the message byte after the tag.
\* The chunk of digest bits without bits.reverse().
DigestChunkInOrder(i) == [j \in 1..8 |-> i * 8 + j - 1]

DigestChunkReversed(i) == [j \in 1..8 |-> (i + 1) * 8 - j]

ConnectDigest(b) ==
    [b EXCEPT
       !.digest_bytes = [i \in 1..32 |-> DigestChunkReversed(i - 1)],
       !.connects = @ \cup {<<DigestByteTarget(i), b.encoded_message[i + 2]>> : i \in 0..31}]

\* The number read from five message bytes, one byte into the tail.
ConnectBlockNumFiveBytes(b) ==
    [b EXCEPT
       !.block_num_terms = SubSeq(b.encoded_message, 34, 38),
       !.connects = @ \cup {<<MessageBlockNum, DecoderBlockNum>>}]

\* lines 103-106: the message bytes 33..37 reduced with powers of 256,
\* connected to the block number of the header decoder.
ConnectBlockNum(b) ==
    [b EXCEPT
       !.block_num_terms = SubSeq(b.encoded_message, 34, 37),
       !.connects = @ \cup {<<MessageBlockNum, DecoderBlockNum>>}]

\* lines 110-119: the message as bits, each byte most significant bit first.
MakeMessageBits(b) ==
    [b EXCEPT
       !.splits = @ \cup {<<b.encoded_message[i + 1], 8>> : i \in 0..(ENCODED_MESSAGE_LENGTH - 1)},
       !.encoded_msg_bits =
           [m \in 1..(ENCODED_MESSAGE_LENGTH * 8) |->
               MessageBit((m - 1) \div 8, ReversedBit((m - 1) % 8))]]

\* One iteration that puts the new handles at the front of the two vectors.
AddValidatorFront(b) ==
    LET k == Len(b.eddsa)
        gadget == [msg     |-> [j \in 1..(ENCODED_MESSAGE_LENGTH * 8) |-> b.encoded_msg_bits[j]],
                   sig     |-> SignatureTarget(k),
                   pub_key |-> PublicKeyTarget(k)]
    IN  [b EXCEPT !.eddsa      = Append(@, gadget),
                  !.signatures = <<gadget.sig>> \o @,
                  !.pub_keys   = <<gadget.pub_key>> \o @]

\* lines 123-132, one iteration: a new signature gadget, its message bits
\* connected to encoded_msg_bits, its handles pushed to the two vectors.
AddValidator(b) ==
    LET k == Len(b.eddsa)
        gadget == [msg     |-> [j \in 1..(ENCODED_MESSAGE_LENGTH * 8) |-> b.encoded_msg_bits[j]],
                   sig     |-> SignatureTarget(k),
                   pub_key |-> PublicKeyTarget(k)]
    IN  [b EXCEPT !.eddsa      = Append(@, gadget),
                  !.signatures = Append(@, gadget.sig),
                  !.pub_keys   = Append(@, gadget.pub_key)]

\* lines 134-140: the bundle returned to the caller.
ReturnedTargets(b) ==
    [encoded_header        |-> b.encoded_header,
     encoded_header_length |-> b.encoded_header_length[1],
     encoded_message       |-> b.encoded_message,
     signatures            |-> b.signatures,
     pub_keys              |-> b.pub_keys]

(***************************************************************************)
(* Bounds of the model.                                                    *)
(***************************************************************************)
\* Header sizes tried: this many above and below each size of interest.
SizeSpread == 1
\* The builder is run for 0..MaxValidators validators.
MaxValidators == 2
\* Integers tried: this many above the low end and below the high end of
\* each compact mode range.
NumberSpread == 1
\* Distinct 32-byte values tried for a hash.
HashSeeds == 2

\* The smallest size of a header: the size of its fields before the data root.
MinHeaderBytes == 98

(***************************************************************************)
(* The builder, statement by statement.                                    *)
(***************************************************************************)
HeaderSizes ==
    {36 + HASH_SIZE}
    \cup {MinHeaderBytes + k : k \in 0..SizeSpread}
    \cup {MAX_HEADER_SIZE - k : k \in 0..SizeSpread}
    \cup {MAX_HEADER_SIZE + k : k \in 1..SizeSpread}

InitBuild ==
    /\ pc = "alloc_header"
    /\ max_encoded_header_length \in HeaderSizes
    /\ num_validators \in 0..MaxValidators
    /\ builder = NewBuilder
    /\ grandpa_justif_targets = <<>>

BuildStep(from, to, b) ==
    /\ pc = from
    /\ pc' = to
    /\ builder' = b
    /\ UNCHANGED <<max_encoded_header_length, num_validators, grandpa_justif_targets, decodeVars, proveVars, divVars, operatorVars, generateVars>>

BuildPanic(from) ==
    /\ pc = from
    /\ pc' = "panicked"
    /\ UNCHANGED <<max_encoded_header_length, num_validators, builder, grandpa_justif_targets, decodeVars, proveVars, divVars, operatorVars, generateVars>>

DoAllocHeader ==
    BuildStep("alloc_header", "range_check_header",
              AllocHeader(builder, max_encoded_header_length))

DoRangeCheckHeader ==
    BuildStep("range_check_header", "decoder",
              RangeCheckHeader(builder, max_encoded_header_length))

DoConnectDecoder ==
    /\ ~DecodeHeaderPanics(builder.encoded_header)
    /\ BuildStep("decoder", "blake", ConnectDecoder(builder, max_encoded_header_length))

DoDecoderPanic ==
    /\ DecodeHeaderPanics(builder.encoded_header)
    /\ BuildPanic("decoder")

DoMakeBlake2b == BuildStep("blake", "blake_connect", MakeBlake2b(builder))

DoConnectBlake ==
    /\ ~BlakeLoopPanics(builder, max_encoded_header_length)
    /\ BuildStep("blake_connect", "length",
                 ConnectBlake(builder, max_encoded_header_length))

\* The loop has wired the bytes that fit when the index leaves the vector.
DoBlakePanic ==
    /\ BlakeLoopPanics(builder, max_encoded_header_length)
    /\ BuildStep("blake_connect", "panicked",
                 ConnectBlake(builder, max_encoded_header_length))

DoConnectLength == BuildStep("length", "alloc_message", ConnectLength(builder))

DoAllocMessage == BuildStep("alloc_message", "range_check_message", AllocMessage(builder))

DoRangeCheckMessage == BuildStep("range_check_message", "tag", RangeCheckMessage(builder))

DoConnectTag == BuildStep("tag", "digest", ConnectTag(builder))

DoConnectDigest == BuildStep("digest", "block_num", ConnectDigest(builder))

DoConnectBlockNum == BuildStep("block_num", "message_bits", ConnectBlockNum(builder))

DoMakeMessageBits == BuildStep("message_bits", "validators", MakeMessageBits(builder))

\* A loop over 0..=num_validators.
LoopContinuesInclusive(b, n) == Len(b.eddsa) <= n

\* for _i in 0..num_validators
LoopContinues(b, n) == Len(b.eddsa) < n

DoAddValidator ==
    /\ LoopContinues(builder, num_validators)
    /\ BuildStep("validators", "validators", AddValidator(builder))

DoReturn ==
    /\ pc = "validators"
    /\ ~LoopContinues(builder, num_validators)
    /\ pc' = "done"
    /\ grandpa_justif_targets' = ReturnedTargets(builder)
    /\ UNCHANGED <<max_encoded_header_length, num_validators, builder, decodeVars, proveVars, divVars, operatorVars, generateVars>>

NextBuild ==
    \/ DoAllocHeader
    \/ DoRangeCheckHeader
    \/ DoConnectDecoder
    \/ DoDecoderPanic
    \/ DoMakeBlake2b
    \/ DoConnectBlake
    \/ DoBlakePanic
    \/ DoConnectLength
    \/ DoAllocMessage
    \/ DoRangeCheckMessage
    \/ DoConnectTag
    \/ DoConnectDigest
    \/ DoConnectBlockNum
    \/ DoMakeMessageBits
    \/ DoAddValidator
    \/ DoReturn

(***************************************************************************)
(* The decoders run on the encoding of chosen values, as the tests of      *)
(* encoding.rs run them: the inputs are constants, the witness generator   *)
(* of int_div assigns quotient and remainder, and the proof succeeds when  *)
(* every constraint holds.                                                 *)
(***************************************************************************)
AddU32(v, k) == SubSeq(AddLimbs[v, IntLimbs(k, 4), 0], 1, 4)
SubU32(v, k) == SubLimbs[v, IntLimbs(k, 4), 0]

\* The ends of the four ranges: 0..63, 64..2^14-1, 2^14..2^30-1, 2^30..2^32-1.
ModeRanges ==
    << <<IntLimbs(0, 4),        IntLimbs(63, 4)>>,
       <<IntLimbs(64, 4),       IntLimbs(16383, 4)>>,
       <<IntLimbs(16384, 4),    <<255, 255, 255, 63>> >>,
       << <<0, 0, 0, 64>>,      <<255, 255, 255, 255>> >> >>

NumberSamples ==
    UNION {{AddU32(ModeRanges[m][1], k), SubU32(ModeRanges[m][2], k)} :
              m \in 1..4, k \in 0..NumberSpread}
    \cup {IntLimbs(576728, 4)}

\* The compact mode a u32 belongs to.
ModeOf(v) == CHOOSE m \in 0..3 :
                /\ GeLimbs[v, ModeRanges[m + 1][1]]
                /\ GeLimbs[ModeRanges[m + 1][2], v]

HashPattern(seed) == [i \in 1..HASH_SIZE |-> (seed * 31 + i * 7) % 256]

\* What follows the state root in a header of the smallest size.
HeaderRest == [i \in 1..(MinHeaderBytes - 65) |-> (i * 13 + 3) % 256]

InitDecode ==
    /\ dpc = "input"
    /\ expected_int \in NumberSamples
    /\ expected_parent_hash \in {HashPattern(s) : s \in 1..HashSeeds}
    /\ expected_state_root \in {HashPattern(HashSeeds + s) : s \in 1..HashSeeds}
    /\ encoded_bytes = <<>>
    /\ decoded_compact = <<>>
    /\ header_bytes_target = <<>>
    /\ header_size_target = 0
    /\ decoded_header = <<>>

EncodeCompactStep ==
    /\ dpc = "input"
    /\ dpc' = "compact_encoded"
    /\ encoded_bytes' = PadZeros(CompactEncode(expected_int), 5)
    /\ UNCHANGED <<decodeInputs, decoded_compact, header_bytes_target, header_size_target, decoded_header, buildVars, proveVars, divVars, operatorVars, generateVars>>

\* The values a byte after the encoding is set to.
TrailingFills == {1, 255}

\* The values the upper six bits of the first byte are set to.
UpperBits == 1..63

\* The hashes are no part of the window: it is changed under one pair.
FirstHashes ==
    /\ expected_parent_hash = HashPattern(1)
    /\ expected_state_root = HashPattern(HashSeeds + 1)

\* A window whose bytes after the encoding of mode 0, 1 or 2 are not zero.
FillTrailingBytes ==
    /\ dpc = "compact_encoded"
    /\ FirstHashes
    /\ CompressMode(encoded_bytes) < 3
    /\ dpc' = "window_filled"
    /\ \E fill \in TrailingFills :
          encoded_bytes' =
            [i \in 1..MAX_BLOCK_NUMBER_SIZE |->
                IF i <= RandomAccess(CompressMode(encoded_bytes), <<1, 2, 4, 5>>)
                THEN encoded_bytes[i] ELSE fill]
    /\ UNCHANGED <<decodeInputs, decoded_compact, header_bytes_target, header_size_target, decoded_header, buildVars, proveVars, divVars, operatorVars, generateVars>>

\* A window of mode 3 whose first byte has upper six bits that are not zero.
SetUpperBits ==
    /\ dpc = "compact_encoded"
    /\ FirstHashes
    /\ CompressMode(encoded_bytes) = 3
    /\ dpc' = "window_filled"
    /\ \E upper \in UpperBits :
          encoded_bytes' = [encoded_bytes EXCEPT ![1] = 3 + 4 * upper]
    /\ UNCHANGED <<decodeInputs, decoded_compact, header_bytes_target, header_size_target, decoded_header, buildVars, proveVars, divVars, operatorVars, generateVars>>

DecodeCompactIntStep ==
    /\ dpc \in {"compact_encoded", "window_filled"}
    /\ dpc' = IF dpc = "compact_encoded" THEN "compact_decoded" ELSE "window_decoded"
    /\ LET g == CompactDivWitness(encoded_bytes)
       IN  decoded_compact' =
             [out       |-> DecodeCompactInt(encoded_bytes, g.quotient),
              int_div   |-> IntDivCall(encoded_bytes),
              quotient  |-> g.quotient,
              remainder |-> g.remainder,
              satisfied |-> DecodeCompactIntSat(encoded_bytes, g.quotient, g.remainder)]
    /\ UNCHANGED <<decodeInputs, encoded_bytes, header_bytes_target, header_size_target, decoded_header, buildVars, proveVars, divVars, operatorVars, generateVars>>

EncodeHeaderStep ==
    /\ dpc = "compact_decoded"
    /\ dpc' = "header_encoded"
    /\ header_bytes_target' =
          PadZeros(EncodeHeader(expected_parent_hash, expected_int, expected_state_root,
                                HeaderRest),
                   MAX_HEADER_SIZE)
    /\ header_size_target' =
          Len(EncodeHeader(expected_parent_hash, expected_int, expected_state_root, HeaderRest))
    /\ UNCHANGED <<decodeInputs, encoded_bytes, decoded_compact, decoded_header, buildVars, proveVars, divVars, operatorVars, generateVars>>

\* The lengths a header is cut to: on both sides of the last byte read.
HeaderCuts == {HASH_SIZE + MAX_BLOCK_NUMBER_SIZE - 1, 36 + HASH_SIZE, 37 + HASH_SIZE,
               38 + HASH_SIZE}

\* The values header_size is set to: none is the size of the header.
HeaderSizeFills == {0, MAX_HEADER_SIZE + 1}

\* The header cut to one of the lengths, or with every byte after the
\* last byte read set to a value that is not zero.
AlteredHeaders(header_bytes) ==
    {SubSeq(header_bytes, 1, cut) : cut \in HeaderCuts}
    \cup {[i \in 1..Len(header_bytes) |->
              IF i <= 37 + HASH_SIZE THEN header_bytes[i] ELSE fill] : fill \in TrailingFills}

\* An EncodedHeaderTarget that agrees with the encoding on the bytes read
\* at most.
AlterHeader ==
    /\ dpc = "header_encoded"
    /\ FirstHashes
    /\ dpc' = "header_altered"
    /\ header_bytes_target' \in AlteredHeaders(header_bytes_target)
    /\ header_size_target' \in HeaderSizeFills
    /\ UNCHANGED <<decodeInputs, encoded_bytes, decoded_compact, decoded_header, buildVars, proveVars, divVars, operatorVars, generateVars>>

DecodeHeaderStep ==
    /\ dpc \in {"header_encoded", "header_altered"}
    /\ ~DecodeHeaderPanics(header_bytes_target)
    /\ dpc' = IF dpc = "header_encoded" THEN "header_decoded" ELSE "altered_decoded"
    /\ LET g == HeaderDivWitness(header_bytes_target)
       IN  decoded_header' =
             [out       |-> DecodeHeader(header_bytes_target, g.quotient),
              satisfied |-> DecodeHeaderSat(header_bytes_target, g.quotient, g.remainder)]
    /\ UNCHANGED <<decodeInputs, encoded_bytes, decoded_compact, header_bytes_target, header_size_target, buildVars, proveVars, divVars, operatorVars, generateVars>>

\* A slice of decode_header reaches past the end of header_bytes.
DecodeHeaderPanicStep ==
    /\ dpc \in {"header_encoded", "header_altered"}
    /\ DecodeHeaderPanics(header_bytes_target)
    /\ dpc' = "panicked"
    /\ UNCHANGED <<decodeInputs, encoded_bytes, decoded_compact, header_bytes_target, header_size_target, decoded_header, buildVars, proveVars, divVars, operatorVars, generateVars>>

NextDecode ==
    \/ EncodeCompactStep
    \/ FillTrailingBytes
    \/ SetUpperBits
    \/ DecodeCompactIntStep
    \/ EncodeHeaderStep
    \/ AlterHeader
    \/ DecodeHeaderStep
    \/ DecodeHeaderPanicStep

(***************************************************************************)
(* The whole of build_grandpa_justification_verifier on a fresh builder.   *)
(***************************************************************************)
RECURSIVE AddValidators(_, _)
AddValidators(b, n) == IF n = 0 THEN b ELSE AddValidator(AddValidators(b, n - 1))

Build(max_len, n) ==
    LET header  == ConnectDecoder(
                       RangeCheckHeader(AllocHeader(NewBuilder, max_len), max_len), max_len)
        hashed  == ConnectLength(ConnectBlake(MakeBlake2b(header), max_len))
        message == ConnectTag(RangeCheckMessage(AllocMessage(hashed)))
        bound   == MakeMessageBits(ConnectBlockNum(ConnectDigest(message)))
    IN  AddValidators(bound, n)

(***************************************************************************)
(* The two gadgets of the proving-system libraries, by their contracts.    *)
(* The hash stands for Blake2b: it reads the first len bytes of the        *)
(* message and no others, and any change of one bit among them changes the *)
(* digest.  The signature stands for Ed25519: a signature is valid for one *)
(* key and one message, and any change of one bit of the message or of the *)
(* signature makes it invalid.                                             *)
(***************************************************************************)
\* The sum of bytes[lo..hi], each times 1 + weight * its position, mod 2^16.
RECURSIVE SumBytes(_, _, _, _)
SumBytes(bytes, weight, lo, hi) ==
    IF lo > hi THEN 0
    ELSE IF lo = hi THEN (bytes[lo] * (1 + weight * lo)) % 65536
    ELSE LET mid == (lo + hi) \div 2
         IN  (SumBytes(bytes, weight, lo, mid) + SumBytes(bytes, weight, mid + 1, hi)) % 65536

Blake2bHash(bytes, len) ==
    LET plain    == SumBytes(bytes, 0, 1, len)
        weighted == SumBytes(bytes, 1, 1, len)
    IN  SubSeq([k \in 1..HASH_SIZE |-> (plain + (k - 1) * weighted + len) % 256],
               1, HASH_SIZE)

\* The bits of a byte string, each byte most significant bit first (to_bits).
ToBits(bytes) ==
    SubSeq([m \in 1..(8 * Len(bytes)) |->
               (bytes[((m - 1) \div 8) + 1] \div Pow2(7 - ((m - 1) % 8))) % 2],
           1, 8 * Len(bytes))

\* The bytes of a bit string, each byte most significant bit first.
FromBits(bits) ==
    SubSeq([i \in 1..(Len(bits) \div 8) |-> LeSum([j \in 1..8 |-> bits[8 * i - j + 1]])],
           1, Len(bits) \div 8)

EddsaSign(pub_key, message_bits) ==
    (pub_key % 256) * 256
    + (SumBytes(FromBits(message_bits), 0, 1, Len(message_bits) \div 8) % 256)

EddsaVerify(message_bits, sig, pub_key) == sig = EddsaSign(pub_key, message_bits)

(***************************************************************************)
(* The value of a target under a partial witness, and the constraints of   *)
(* a built circuit.                                                        *)
(***************************************************************************)
\* A target the witness sets, a constant, or one bit of a split_le.
TargetValue(w, t) ==
    CASE t[1] = "encoded_header.bit"    -> SplitLe(w.encoded_header[t[2] + 1], 8)[t[3] + 1]
      [] t[1] = "encoded_message.bit"   -> SplitLe(w.encoded_message[t[2] + 1], 8)[t[3] + 1]
      [] t[1] = "encoded_header"        -> w.encoded_header[t[2] + 1]
      [] t[1] = "encoded_message"       -> w.encoded_message[t[2] + 1]
      [] t[1] = "encoded_header_length" -> w.encoded_header_length
      [] t[1] = "eddsa.sig"             -> w.signatures[t[2] + 1]
      [] t[1] = "eddsa.pub_key"         -> w.pub_keys[t[2] + 1]
      [] t[1] = "constant"              -> t[2]

TargetValues(w, targets) ==
    SubSeq([i \in 1..Len(targets) |-> TargetValue(w, targets[i])], 1, Len(targets))

\* The digest bits the Blake2b gadget of circuit b puts out: the hash of
\* the first message_len bytes of its message, the connected bytes and
\* after them the bytes of its message that are connected to nothing.
Blake2bDigest(b, w) ==
    LET message == FromBits(TargetValues(w, b.blake_message)) \o w.blake_unconnected
        len     == TargetValue(w, b.blake_message_len[1])
    IN  ToBits(Blake2bHash(message, len))

\* The compact integer the header decoder of circuit b reads.
DecoderCompactValue(b, w) ==
    CompactValue(SubSeq(TargetValues(w, b.decoder_input), 33, 32 + MAX_BLOCK_NUMBER_SIZE))

\* A target computed by a gadget of circuit b.
GadgetValue(b, w, digest, t) ==
    CASE t[1] = "digest_byte" ->
             LeSum([j \in 1..8 |-> digest[b.digest_bytes[t[2] + 1][j] + 1]])
      [] t[1] = "encoded_message_block_num" ->
             Reduce(256, Limbs(TargetValues(w, b.block_num_terms)))
      [] t[1] = "block_num" ->
             DecodeHeader(TargetValues(w, b.decoder_input), w.quotient).block_number
      [] OTHER -> TargetValue(w, t)

RangeChecksHold(b, w) ==
    \A rc \in b.range_checks : RangeCheck(TargetValue(w, rc[1]), rc[2])

\* Every constraint of circuit b but those of its signature gadgets.
SatisfiedButEddsa(b, w) ==
    LET digest == Blake2bDigest(b, w)
    IN  /\ RangeChecksHold(b, w)
        /\ \A sp \in b.splits : SplitLeSat(TargetValue(w, sp[1]), sp[2])
        /\ DecodeHeaderSat(TargetValues(w, b.decoder_input), w.quotient, w.remainder)
        /\ \A c \in b.connects :
              GadgetValue(b, w, digest, c[1]) = GadgetValue(b, w, digest, c[2])

\* Signature gadgets that hold only for public keys that differ.
EddsaSatisfiedDistinctKeys(b, w) ==
    /\ \A k \in 1..Len(b.eddsa) :
          EddsaVerify(TargetValues(w, b.eddsa[k].msg),
                      TargetValue(w, b.eddsa[k].sig),
                      TargetValue(w, b.eddsa[k].pub_key))
    /\ \A j, k \in 1..Len(b.eddsa) :
          j # k => TargetValue(w, b.eddsa[j].pub_key) # TargetValue(w, b.eddsa[k].pub_key)

\* The constraints of the signature gadgets of circuit b.
EddsaSatisfied(b, w) ==
    \A k \in 1..Len(b.eddsa) :
        EddsaVerify(TargetValues(w, b.eddsa[k].msg),
                    TargetValue(w, b.eddsa[k].sig),
                    TargetValue(w, b.eddsa[k].pub_key))

\* Every constraint of circuit b holds under w.
Satisfied(b, w) == SatisfiedButEddsa(b, w) /\ EddsaSatisfied(b, w)

(***************************************************************************)
(* A proof attempt, as generate_proof and the test of consensus.rs make    *)
(* it: the driver sets the targets of the returned bundle, the prover      *)
(* assigns the targets of int_div, and the proof exists when every         *)
(* constraint holds.  Between the two the assignment may be changed in     *)
(* one place.                                                              *)
(***************************************************************************)
\* The block numbers of the headers proved: one of each compact mode.
ProveNumbers == {AddU32(ModeRanges[m][1], 1) : m \in 1..4}

\* The sizes of the circuits proved on: room for the longest of the headers.
ProveSizes ==
    {MinHeaderBytes + MAX_BLOCK_NUMBER_SIZE - 1 + k : k \in 0..SizeSpread}

\* Bytes 37..52 of the message: round and set id.
MessageTail == [i \in 1..(ENCODED_MESSAGE_LENGTH - 37) |-> (i * 5 + 1) % 256]

\* The precommit message for a header: tag, header hash, block number, tail.
EncodeMessage(header, number) ==
    <<1>> \o Blake2bHash(header, Len(header)) \o number \o MessageTail

ValidatorKey(k) == 16 + k

JustificationInputs(number, n) ==
    LET header  == EncodeHeader(HashPattern(1), number, HashPattern(2), HeaderRest)
        message == EncodeMessage(header, number)
    IN  [encoded_header  |-> header,
         encoded_message |-> message,
         signatures      |-> [k \in 1..n |-> EddsaSign(ValidatorKey(k), ToBits(message))],
         pub_keys        |-> [k \in 1..n |-> ValidatorKey(k)]]

\* The values set through a vector of handles: the value at position i goes
\* to the target handles[i].
SetByHandle(handles, values) ==
    [k \in 1..Len(handles) |->
        values[CHOOSE i \in 1..Len(handles) : handles[i][2] = k - 1]]

\* generate_proof: what the driver sets before prove.  The header targets
\* after the header are set to zero up to the size the circuit was built
\* with (CHUNK_128_BYTES * 10 in both callers).
SetTargets(targets, given) ==
    [encoded_header        |-> PadZeros(given.encoded_header, Len(targets.encoded_header)),
     encoded_header_length |-> Len(given.encoded_header),
     encoded_message       |-> given.encoded_message,
     signatures            |-> SetByHandle(targets.signatures, given.signatures),
     pub_keys              |-> SetByHandle(targets.pub_keys, given.pub_keys),
     blake_unconnected     |-> <<>>,
     quotient              |-> Zeros(8),
     remainder             |-> Zeros(8)]

\* The assignments of the two targets of int_div a prover can make: the one
\* of the witness generator, and the one that makes the decoded block
\* number equal to the number in the message whenever any assignment does
\* (quotient = that number, remainder = value - 4 * quotient).
IntDivAssignments(b, w) ==
    LET value   == DecoderCompactValue(b, w)
        g       == FloorDivGenerator(value, FromCanonical(4))
        claimed == Reduce(256, Limbs(TargetValues(w, b.block_num_terms)))
    IN  {[quotient |-> g.quotient, remainder |-> g.remainder],
         [quotient  |-> claimed,
          remainder |-> FSub[value, FMul[claimed, FromCanonical(4)]]]}

FlippedBits == {0, 7}

Flip(x, bit) == IF (x \div Pow2(bit)) % 2 = 1 THEN x - Pow2(bit) ELSE x + Pow2(bit)

\* Positions of header bytes changed: in each field, at the end of the
\* header, and in the padding.
HeaderPositions(w) ==
    {0, HASH_SIZE - 1, HASH_SIZE, HASH_SIZE + 1,
     w.encoded_header_length - 1, w.encoded_header_length,
     Len(w.encoded_header) - 1} \cap (0..(Len(w.encoded_header) - 1))

\* Positions of message bytes changed: the tag, the digest, the block
\* number and the tail, at both ends of each.
MessagePositions == {0, 1, HASH_SIZE, HASH_SIZE + 1, 36, 37, ENCODED_MESSAGE_LENGTH - 1}

NotPerturbed == [kind |-> "none", index |-> 0, bit |-> 0]

InitProve ==
    /\ pc = "done"
    /\ max_encoded_header_length \in ProveSizes
    /\ num_validators \in 0..MaxValidators
    /\ builder = Build(max_encoded_header_length, num_validators)
    /\ grandpa_justif_targets = ReturnedTargets(builder)
    /\ wpc = "inputs"
    /\ inputs \in {JustificationInputs(number, num_validators) : number \in ProveNumbers}
    /\ pw = <<>>
    /\ perturbed = NotPerturbed
    /\ proof = <<>>

SetWitness ==
    /\ wpc = "inputs"
    /\ wpc' = "assigned"
    /\ pw' = SetTargets(grandpa_justif_targets, inputs)
    /\ UNCHANGED <<inputs, perturbed, proof, buildVars, decodeVars, divVars, operatorVars, generateVars>>

PerturbStep(kind, index, bit, w) ==
    /\ wpc' = "perturbed"
    /\ perturbed' = [kind |-> kind, index |-> index, bit |-> bit]
    /\ pw' = w
    /\ UNCHANGED <<inputs, proof, buildVars, decodeVars, divVars, operatorVars, generateVars>>

FlipHeaderBit ==
    /\ wpc = "assigned"
    /\ \E index \in HeaderPositions(pw), bit \in FlippedBits :
          PerturbStep("encoded_header", index, bit,
                      [pw EXCEPT !.encoded_header[index + 1] = Flip(@, bit)])

FlipMessageBit ==
    /\ wpc = "assigned"
    /\ \E index \in MessagePositions, bit \in FlippedBits :
          PerturbStep("encoded_message", index, bit,
                      [pw EXCEPT !.encoded_message[index + 1] = Flip(@, bit)])

FlipSignatureBit ==
    /\ wpc = "assigned"
    /\ \E index \in 0..(Len(pw.signatures) - 1), bit \in FlippedBits :
          PerturbStep("signature", index, bit,
                      [pw EXCEPT !.signatures[index + 1] = Flip(@, bit)])

\* A value that is no byte in a header target.
SetHeaderBeyondByte ==
    /\ wpc = "assigned"
    /\ \E index \in {0, Len(pw.encoded_header) - 1} :
          PerturbStep("encoded_header", index, 8,
                      [pw EXCEPT !.encoded_header[index + 1] = Flip(@, 8)])

\* A value that is no byte in a message target.
SetMessageBeyondByte ==
    /\ wpc = "assigned"
    /\ \E index \in {0, ENCODED_MESSAGE_LENGTH - 1} :
          PerturbStep("encoded_message", index, 8,
                      [pw EXCEPT !.encoded_message[index + 1] = Flip(@, 8)])

\* The values of a message byte of the Blake2b gadget that is connected
\* to no header target: zero when nothing sets it, or the prover's.
UnconnectedFills == {0, 7}

\* A witness for a header one byte longer than the header targets: the
\* length target is set past max_encoded_header_length, the byte after the
\* last header target is one the gadget has and the builder connects to
\* nothing, and the message and the signatures are those of that header.
SetLengthBeyondHeader ==
    /\ wpc = "assigned"
    /\ \E fill \in UnconnectedFills :
          LET len     == Len(pw.encoded_header) + 1
              digest  == Blake2bHash(pw.encoded_header \o <<fill>>, len)
              message == SubSeq([i \in 1..ENCODED_MESSAGE_LENGTH |->
                                    IF i \in 2..(HASH_SIZE + 1) THEN digest[i - 1]
                                    ELSE pw.encoded_message[i]],
                                1, ENCODED_MESSAGE_LENGTH)
              sigs    == SubSeq([k \in 1..Len(pw.signatures) |->
                                    EddsaSign(pw.pub_keys[k], ToBits(message))],
                                1, Len(pw.signatures))
          IN  PerturbStep("encoded_header_length", len, 0,
                          [pw EXCEPT !.encoded_header_length = len,
                                     !.blake_unconnected     = <<fill>>,
                                     !.encoded_message       = message,
                                     !.signatures            = sigs])

\* A witness with the signature and the key of one validator in every
\* slot of the circuit.
RepeatFirstPair ==
    /\ wpc = "assigned"
    /\ Len(pw.pub_keys) >= 2
    /\ PerturbStep("pub_keys", 0, 0,
                   [pw EXCEPT !.signatures = [k \in DOMAIN pw.signatures |-> pw.signatures[1]],
                              !.pub_keys   = [k \in DOMAIN pw.pub_keys |-> pw.pub_keys[1]]])

Prove ==
    /\ wpc \in {"assigned", "perturbed"}
    /\ wpc' = "proved"
    /\ \E a \in IntDivAssignments(builder, pw) :
          LET w == [pw EXCEPT !.quotient = a.quotient, !.remainder = a.remainder]
          IN  /\ pw' = w
              /\ proof' = [satisfied |-> Satisfied(builder, w)]
    /\ UNCHANGED <<inputs, perturbed, buildVars, decodeVars, divVars, operatorVars, generateVars>>

NextProve ==
    \/ SetWitness
    \/ FlipHeaderBit
    \/ FlipMessageBit
    \/ FlipSignatureBit
    \/ SetHeaderBeyondByte
    \/ SetMessageBeyondByte
    \/ SetLengthBeyondHeader
    \/ RepeatFirstPair
    \/ Prove

(***************************************************************************)
(* int_div called on targets that hold two values below 2^32.  The        *)
(* witness generator assigns the two fresh targets when the prover is     *)
(* honest; any other assignment is the prover's to make.                  *)
(***************************************************************************)
DivDividends == {v \o Zeros(4) : v \in NumberSamples}

DivDivisors ==
    {IntLimbs(k, 8) : k \in 0..(4 + NumberSpread)}
    \cup {IntLimbs(255, 8), IntLimbs(65537, 8), <<255, 255, 255, 255, 0, 0, 0, 0>>}

\* The target int_div returns: its last expression is quotient.
IntDivReturn(w) == w.quotient

InitDiv ==
    /\ ipc = "called"
    /\ int_div_args \in [dividend : DivDividends, divisor : DivDivisors]
    /\ int_div_witness = <<>>

DivStepTo(to, quotient, remainder) ==
    /\ ipc = "called"
    /\ ipc' = to
    /\ int_div_witness' =
          [quotient  |-> quotient,
           remainder |-> remainder,
           satisfied |-> IntDivConstraint(int_div_args.dividend, int_div_args.divisor,
                                          quotient, remainder)]
    /\ UNCHANGED <<int_div_args, buildVars, decodeVars, proveVars, operatorVars, generateVars>>

\* run_once sets the two targets; the proof exists when the constraint holds.
GeneratorRuns ==
    LET g == FloorDivGenerator(int_div_args.dividend, int_div_args.divisor)
    IN  /\ ~g.panicked
        /\ DivStepTo("generated", g.quotient, g.remainder)

\* dividend_int / divisor_int with a zero divisor_int panics.
GeneratorPanics ==
    /\ ipc = "called"
    /\ FloorDivGenerator(int_div_args.dividend, int_div_args.divisor).panicked
    /\ ipc' = "panicked"
    /\ UNCHANGED <<int_div_args, int_div_witness, buildVars, decodeVars, proveVars, operatorVars, generateVars>>

\* A prover that sets the quotient one above or one below the quotient of
\* the generator, and the remainder that meets the constraint.
ForgedQuotients(g) == {FAdd[g.quotient, FromCanonical(1)], FSub[g.quotient, FromCanonical(1)]}

ProverForges ==
    LET g == FloorDivGenerator(int_div_args.dividend, int_div_args.divisor)
    IN  /\ ~g.panicked
        /\ \E quotient \in ForgedQuotients(g) :
              DivStepTo("forged", quotient,
                        FSub[int_div_args.dividend, FMul[quotient, int_div_args.divisor]])

NextDiv ==
    \/ GeneratorRuns
    \/ GeneratorPanics
    \/ ProverForges

(***************************************************************************)
(* main_loop of the operator: one task that selects over the header and   *)
(* the justification subscription and, once a saved justification has its *)
(* header, calls submit_proof_gen_request.  An Option is <<>> (None) or   *)
(* <<v>> (Some(v)); a header is its block number, the hash of a block     *)
(* follows its number and is left out; a public key is a small number; an *)
(* event 0 of a subscription is an error or the end of the stream.        *)
(***************************************************************************)
\* The size of the authority set the step circuit is made for, and the
\* number of its signers the circuit verifies (utils.rs).
NUM_VALIDATORS == 10

QUORUM_SIZE == 7

\* target_number >= last_processed_block_num.unwrap() + 5
MinBatch == 5

\* take(7) on the signatures and on the public keys
SignersTaken == 7

\* take(3) on the difference, and the six pushes of add_three[0]
KeysAdded == 3

KeysRepeated == 6

LastHeader == 12

StreamLen == 2

Precommit(number, is_ok, id) == [target_number |-> number, is_ok |-> is_ok, id |-> id]

GrandpaJustification(number, precommits) ==
    [target_number |-> number, precommits |-> precommits]

\* A justification with count precommits for one block; signer i has key i.
Signed(number, count) ==
    GrandpaJustification(number,
        SubSeq([i \in 1..count |-> Precommit(number, TRUE, i)], 1, count))

WithSecond(unwrapped_just, precommit) ==
    [unwrapped_just EXCEPT !.precommits[2] = precommit]

JustificationEvents ==
    {Signed(MinBatch - 2, SignersTaken),
     Signed(1 + MinBatch, SignersTaken),
     Signed(1 + MinBatch, SignersTaken + 1),
     Signed(1 + MinBatch, 2),
     Signed(1 + 2 * MinBatch, SignersTaken),
     WithSecond(Signed(1 + MinBatch, SignersTaken), Precommit(MinBatch, TRUE, 2)),
     WithSecond(Signed(1 + MinBatch, SignersTaken), Precommit(1 + MinBatch, FALSE, 2)),
     GrandpaJustification(1 + MinBatch, <<>>),
     GrandpaJustification(0, <<>>)}

\* What get_authority_set returns: the keys of ten authorities, or of eight.
AuthoritySets == {SubSeq([k \in 1..n |-> k], 1, n) : n \in {SignersTaken + 1, NUM_VALIDATORS}}

SequentialHeaders == SubSeq([number \in 1..LastHeader |-> number], 1, LastHeader)

\* The headers in sequence, the sequence with one header missing, and a
\* subscription that fails after two headers.
HeaderStreams ==
    {SequentialHeaders,
     SelectSeq(SequentialHeaders, LAMBDA number : number # MinBatch - 1),
     <<1, 2, 0>>}

InitOperator ==
    /\ opc = "select"
    /\ header_sub \in HeaderStreams
    /\ justification_sub \in [1..StreamLen -> JustificationEvents]
    /\ last_processed_block_num = <<>>
    /\ headers = {}
    /\ justification_to_process = <<>>
    /\ requests = 0
    /\ proof_gen_call = <<>>

\* A saved justification goes on without a look at the downloaded headers.
AfterSelectWithoutHeader(downloaded, saved) ==
    IF saved = <<>>
    THEN [opc |-> "select", justification_to_process |-> saved]
    ELSE IF \E i \in DOMAIN saved[1].precommits :
               saved[1].precommits[i].target_number # saved[1].target_number
    THEN [opc |-> "select", justification_to_process |-> <<>>]
    ELSE [opc |-> "fetching", justification_to_process |-> saved]

\* After the select, up to the first await: the saved justification waits
\* for its header, is dropped when a precommit has another target number,
\* or goes on to the fetch of the authority set.
AfterSelect(downloaded, saved) ==
    IF saved = <<>>
    THEN [opc |-> "select", justification_to_process |-> saved]
    ELSE LET unwrapped_just == saved[1]
             just_block_num == unwrapped_just.target_number
         IN  IF just_block_num \notin downloaded
             THEN [opc |-> "select", justification_to_process |-> saved]
             ELSE IF \E i \in DOMAIN unwrapped_just.precommits :
                        unwrapped_just.precommits[i].target_number # just_block_num
             THEN [opc |-> "select", justification_to_process |-> <<>>]
             ELSE [opc |-> "fetching", justification_to_process |-> saved]

\* header = fused_header_sub.next()
HeaderArm ==
    /\ opc = "select"
    /\ header_sub # <<>>
    /\ Head(header_sub) # 0
    /\ LET number == Head(header_sub)
           downloaded == headers \cup {number}
           after == AfterSelect(downloaded, justification_to_process)
       IN  /\ header_sub' = Tail(header_sub)
           /\ last_processed_block_num' =
                 IF last_processed_block_num = <<>> THEN <<number>>
                 ELSE last_processed_block_num
           /\ headers' = downloaded
           /\ opc' = after.opc
           /\ justification_to_process' = after.justification_to_process
    /\ UNCHANGED <<justification_sub, requests, proof_gen_call,
                   buildVars, decodeVars, proveVars, divVars, generateVars>>

\* header.unwrap().unwrap() on an error or on the end of the stream
HeaderArmPanics ==
    /\ opc = "select"
    /\ header_sub # <<>>
    /\ Head(header_sub) = 0
    /\ header_sub' = Tail(header_sub)
    /\ opc' = "panicked"
    /\ UNCHANGED <<justification_sub, last_processed_block_num, headers,
                   justification_to_process, requests, proof_gen_call,
                   buildVars, decodeVars, proveVars, divVars, generateVars>>

\* A justification is saved whatever is saved already.
SavesJustificationOverSaved(last, saved, unwrapped_just) ==
    /\ last # <<>>
    /\ unwrapped_just.target_number >= last[1] + MinBatch

\* justification_to_process.is_none() && target_number >= last + 5, after
\* the continue taken when no header has come
SavesJustification(last, saved, unwrapped_just) ==
    /\ last # <<>>
    /\ saved = <<>>
    /\ unwrapped_just.target_number >= last[1] + MinBatch

\* justification = fused_justification_sub.next(): the event is dropped
\* before any header has come; it is saved when none is saved and its
\* target is MinBatch or more blocks after the last processed block.
JustificationArm ==
    /\ opc = "select"
    /\ justification_sub # <<>>
    /\ last_processed_block_num = <<>> \/ Head(justification_sub).target_number # 0
    /\ LET unwrapped_just == Head(justification_sub)
           saved == IF SavesJustification(last_processed_block_num,
                                          justification_to_process, unwrapped_just)
                    THEN <<unwrapped_just>>
                    ELSE justification_to_process
           after == IF last_processed_block_num = <<>>
                    THEN [opc |-> "select", justification_to_process |-> saved]
                    ELSE AfterSelect(headers, saved)
       IN  /\ justification_sub' = Tail(justification_sub)
           /\ opc' = after.opc
           /\ justification_to_process' = after.justification_to_process
    /\ UNCHANGED <<header_sub, last_processed_block_num, headers, requests, proof_gen_call,
                   buildVars, decodeVars, proveVars, divVars, generateVars>>

\* justification.unwrap().unwrap() on an error or on the end of the stream
JustificationArmPanics ==
    /\ opc = "select"
    /\ justification_sub # <<>>
    /\ last_processed_block_num # <<>>
    /\ Head(justification_sub).target_number = 0
    /\ justification_sub' = Tail(justification_sub)
    /\ opc' = "panicked"
    /\ UNCHANGED <<header_sub, last_processed_block_num, headers,
                   justification_to_process, requests, proof_gen_call,
                   buildVars, decodeVars, proveVars, divVars, generateVars>>

\* The fetch of the set id or of the authority set fails: unwrap panics.
StorageFetchPanics ==
    /\ opc = "fetching"
    /\ opc' = "panicked"
    /\ UNCHANGED <<header_sub, justification_sub, last_processed_block_num, headers,
                   justification_to_process, requests, proof_gen_call,
                   buildVars, decodeVars, proveVars, divVars, generateVars>>

\* unwrapped_just.commit.precommits[0] of a justification with no precommit
PrecommitIndexPanics ==
    /\ opc = "fetching"
    /\ justification_to_process[1].precommits = <<>>
    /\ opc' = "panicked"
    /\ UNCHANGED <<header_sub, justification_sub, last_processed_block_num, headers,
                   justification_to_process, requests, proof_gen_call,
                   buildVars, decodeVars, proveVars, divVars, generateVars>>

\* A check of the first signature only.
FirstSignatureOk(unwrapped_just) == unwrapped_just.precommits[1].is_ok

\* verify_weak on the signature of every precommit
AllSignaturesOk(unwrapped_just) ==
    \A i \in DOMAIN unwrapped_just.precommits : unwrapped_just.precommits[i].is_ok

\* A signature of the justification does not verify: it is dropped.
SignatureRejected ==
    /\ opc = "fetching"
    /\ justification_to_process[1].precommits # <<>>
    /\ ~AllSignaturesOk(justification_to_process[1])
    /\ justification_to_process' = <<>>
    /\ opc' = "select"
    /\ UNCHANGED <<header_sub, justification_sub, last_processed_block_num, headers,
                   requests, proof_gen_call, buildVars, decodeVars, proveVars, divVars, generateVars>>

\* A batch that starts at the last processed block.
HeaderBatchFromLast(last, unwrapped_just) ==
    SubSeq([i \in 1..(unwrapped_just.target_number - last[1] + 1) |-> last[1] + i - 1],
           1, unwrapped_just.target_number - last[1] + 1)

\* for i in last_processed_block_num + 1 .. target_number + 1: the numbers
\* of the headers pushed to header_batch and removed from the map
HeaderBatch(last, unwrapped_just) ==
    SubSeq([i \in 1..(unwrapped_just.target_number - last[1]) |-> last[1] + i],
           1, unwrapped_just.target_number - last[1])

Range(v) == {v[i] : i \in DOMAIN v}

\* headers.get(&i).unwrap() on a header that was never downloaded; the
\* headers before it have been removed from the map
HeaderBatchPanics ==
    /\ opc = "fetching"
    /\ justification_to_process[1].precommits # <<>>
    /\ AllSignaturesOk(justification_to_process[1])
    /\ LET header_batch == HeaderBatch(last_processed_block_num, justification_to_process[1])
           missing == Range(header_batch) \ headers
       IN  /\ missing # {}
           /\ headers' = {number \in headers :
                             \/ number \notin Range(header_batch)
                             \/ \E i \in missing : i < number}
    /\ opc' = "panicked"
    /\ UNCHANGED <<header_sub, justification_sub, last_processed_block_num,
                   justification_to_process, requests, proof_gen_call,
                   buildVars, decodeVars, proveVars, divVars, generateVars>>

\* collect() without the take
TakeAll(v, n) == v

\* iter().take(n).collect()
Take(v, n) == SubSeq(v, 1, IF Len(v) < n THEN Len(v) ELSE n)

\* The vectors a HashSet with the elements of S can yield under take(n):
\* the hasher decides the order.
TakeFromSet(S, n) ==
    LET k == IF Cardinality(S) < n THEN Cardinality(S) ELSE n
    IN  {s \in [1..k -> S] : \A i, j \in 1..k : i # j => s[i] # s[j]}

\* Vec::append: the elements of other move to the end of vec, and other
\* is left empty.
VecAppend(vec, other) == [vec |-> vec \o other, other |-> <<>>]

\* lines 144-149: the signatures of the first seven precommits, each as
\* the outcome of its verification.
Signatures(unwrapped_just) ==
    Take(SubSeq([i \in 1..Len(unwrapped_just.precommits) |-> unwrapped_just.precommits[i].is_ok],
                1, Len(unwrapped_just.precommits)),
         SignersTaken)

\* lines 151-156: the keys of the first seven precommits.
PublicKeys(unwrapped_just) ==
    Take(SubSeq([i \in 1..Len(unwrapped_just.precommits) |-> unwrapped_just.precommits[i].id],
                1, Len(unwrapped_just.precommits)),
         SignersTaken)

\* lines 160-163: three keys of the authority set that are no key taken.
AddThree(unwrapped_just, authority_set) ==
    TakeFromSet(Range(authority_set) \ Range(PublicKeys(unwrapped_just)), KeysAdded)

\* lines 164-170: add_three is appended to public_keys, and add_three[0]
\* is then read from the vector the append has emptied.
PadPublicKeys(public_keys, add_three) ==
    LET moved == VecAppend(public_keys, add_three)
    IN  IF Len(moved.other) = 0
        THEN [panicked |-> TRUE, public_keys |-> moved.vec]
        ELSE [panicked    |-> FALSE,
              public_keys |-> moved.vec \o [i \in 1..KeysRepeated |-> moved.other[1]]]

\* The call as it is made and how far it has come.
ProofGenCall(unwrapped_just, header_batch, authority_set, add_three) ==
    LET padded == PadPublicKeys(PublicKeys(unwrapped_just), add_three)
    IN  [head_block_num |-> last_processed_block_num[1],
         header_batch   |-> header_batch,
         justification  |-> unwrapped_just,
         authority_set  |-> authority_set,
         signatures     |-> Signatures(unwrapped_just),
         public_keys    |-> padded.public_keys,
         panicked       |-> padded.panicked]

\* The call made from a task of its own: the loop goes on at once.
SubmitProofGenRequestSpawned(unwrapped_just, header_batch, authority_set, add_three) ==
    /\ requests' = requests + 1
    /\ proof_gen_call' = ProofGenCall(unwrapped_just, header_batch, authority_set, add_three)
    /\ last_processed_block_num' = <<unwrapped_just.target_number>>
    /\ justification_to_process' = <<>>
    /\ opc' = "select"

\* submit_proof_gen_request(...).await: main_loop is inside the call until
\* it returns.  The call panics at add_three[0], before it sends the
\* request; the panic unwinds main_loop, which main awaits.
SubmitProofGenRequest(unwrapped_just, header_batch, authority_set, add_three) ==
    /\ requests' = requests + 1
    /\ proof_gen_call' = ProofGenCall(unwrapped_just, header_batch, authority_set, add_three)
    /\ opc' = IF proof_gen_call'.panicked THEN "panicked" ELSE "submitting"
    /\ UNCHANGED <<last_processed_block_num, justification_to_process>>

\* The authority set is fetched, the batch is taken out of the map and
\* submit_proof_gen_request is called.
HeaderBatchSubmitted ==
    /\ opc = "fetching"
    /\ justification_to_process[1].precommits # <<>>
    /\ AllSignaturesOk(justification_to_process[1])
    /\ LET unwrapped_just == justification_to_process[1]
           header_batch   == HeaderBatch(last_processed_block_num, unwrapped_just)
       IN  /\ Range(header_batch) \subseteq headers
           /\ headers' = headers \ Range(header_batch)
           /\ \E authority_set \in AuthoritySets :
                 \E add_three \in AddThree(unwrapped_just, authority_set) :
                     SubmitProofGenRequest(unwrapped_just, header_batch,
                                           authority_set, add_three)
    /\ UNCHANGED <<header_sub, justification_sub, buildVars, decodeVars, proveVars, divVars, generateVars>>

\* The call never returns: the request of lines 196-210 is not sent and
\* the assignments of lines 349-351 are not reached.
NextOperator ==
    \/ HeaderArm
    \/ HeaderArmPanics
    \/ JustificationArm
    \/ JustificationArmPanics
    \/ StorageFetchPanics
    \/ PrecommitIndexPanics
    \/ SignatureRejected
    \/ HeaderBatchPanics
    \/ HeaderBatchSubmitted

(***************************************************************************)
(* generate_proof as main of the proof generator calls it: main checks     *)
(* every signature of the justification, then generate_proof sets the      *)
(* header targets, runs its loop over the first signatures and proves.     *)
(* A pair is a signature with its public key, told by what the checks      *)
(* make of it.                                                             *)
(***************************************************************************)
\* for i in 0..7
SignaturesVerified == 7

\* make_grandpa_justif_circuit::<...>(&mut builder, CHUNK_128_BYTES * 10, 7)
CircuitValidators == 7

MaxPairs == 8

PairKinds == {"ok", "bad_sig_r", "bad_pub_key", "bad_signature"}

\* The pairs of a justification: all good, or one of them bad.
PairVectors ==
    UNION {{SubSeq([i \in 1..k |-> "ok"], 1, k)}
             \cup {[SubSeq([i \in 1..k |-> "ok"], 1, k) EXCEPT ![j] = kind] :
                       j \in 1..k, kind \in PairKinds \ {"ok"}} : k \in 0..MaxPairs}

\* The lengths of header.encode(): the least, the most the circuit takes,
\* and one byte more.
EncodedHeaderLengths == {MinHeaderBytes, CHUNK_128_BYTES * 10, CHUNK_128_BYTES * 10 + 1}

InitGenerate ==
    /\ gpc = "main"
    /\ generate_args \in [encoded_header_len : EncodedHeaderLengths,
                          pairs              : PairVectors,
                          satisfiable        : BOOLEAN]
    /\ generate_pw = [encoded_header |-> 0, encoded_header_length |-> <<>>, pairs |-> 0]
    /\ generate_result = <<>>

\* assert!(is_ok, ...), assert!(sig_r.is_valid()), assert!(pub_key.is_valid())
\* and assert!(verify_message(...)) of main, over every pair
MainAssertPanics ==
    /\ gpc = "main"
    /\ \E i \in DOMAIN generate_args.pairs : generate_args.pairs[i] # "ok"
    /\ gpc' = "main_panicked"
    /\ UNCHANGED <<generate_args, generate_pw, generate_result,
                   buildVars, decodeVars, proveVars, divVars, operatorVars>>

\* generate_proof(&grandpa_justif_circuit, encoded_header, ...)
GenerateProofCalled ==
    /\ gpc = "main"
    /\ \A i \in DOMAIN generate_args.pairs : generate_args.pairs[i] = "ok"
    /\ gpc' = "header"
    /\ UNCHANGED <<generate_args, generate_pw, generate_result,
                   buildVars, decodeVars, proveVars, divVars, operatorVars>>

\* The two loops over targets.encoded_header and the length target.
SetHeaderTargets ==
    /\ gpc = "header"
    /\ generate_args.encoded_header_len <= CHUNK_128_BYTES * 10
    /\ generate_pw' = [generate_pw EXCEPT
                          !.encoded_header = CHUNK_128_BYTES * 10,
                          !.encoded_header_length = <<generate_args.encoded_header_len>>]
    /\ gpc' = "pairs"
    /\ UNCHANGED <<generate_args, generate_result,
                   buildVars, decodeVars, proveVars, divVars, operatorVars>>

\* targets.encoded_header[i] beyond the targets the circuit has
HeaderIndexPanics ==
    /\ gpc = "header"
    /\ generate_args.encoded_header_len > CHUNK_128_BYTES * 10
    /\ generate_pw' = [generate_pw EXCEPT !.encoded_header = CHUNK_128_BYTES * 10]
    /\ gpc' = "panicked"
    /\ UNCHANGED <<generate_args, generate_result,
                   buildVars, decodeVars, proveVars, divVars, operatorVars>>

\* A loop over every pair given.
LoopOverAllPairs(pairs, i) == i < Len(pairs)

\* for i in 0..7, whatever the number of pairs
LoopContinuesToSeven(pairs, i) == i < SignaturesVerified

\* signatures[i], pub_keys[i] and the targets of pair i can be indexed,
\* and the three asserts on the pair hold.
PairAssignable(pairs, i) ==
    /\ i < Len(pairs)
    /\ i < CircuitValidators
    /\ pairs[i + 1] = "ok"

\* One turn of the loop: the witness of pair i is set.
AssignPair ==
    /\ gpc = "pairs"
    /\ LoopContinuesToSeven(generate_args.pairs, generate_pw.pairs)
    /\ PairAssignable(generate_args.pairs, generate_pw.pairs)
    /\ generate_pw' = [generate_pw EXCEPT !.pairs = @ + 1]
    /\ UNCHANGED <<gpc, generate_args, generate_result,
                   buildVars, decodeVars, proveVars, divVars, operatorVars>>

\* One turn of the loop: an index is out of range, or an assert fails.
PairPanics ==
    /\ gpc = "pairs"
    /\ LoopContinuesToSeven(generate_args.pairs, generate_pw.pairs)
    /\ ~PairAssignable(generate_args.pairs, generate_pw.pairs)
    /\ gpc' = "panicked"
    /\ UNCHANGED <<generate_args, generate_pw, generate_result,
                   buildVars, decodeVars, proveVars, divVars, operatorVars>>

\* granda_justif_circuit.prove(pw): Ok(v) returns Some(v), Err returns None
ProveReturns ==
    /\ gpc = "pairs"
    /\ ~LoopContinuesToSeven(generate_args.pairs, generate_pw.pairs)
    /\ generate_result' = IF generate_args.satisfiable THEN <<"Some">> ELSE <<"None">>
    /\ gpc' = "returned"
    /\ UNCHANGED <<generate_args, generate_pw,
                   buildVars, decodeVars, proveVars, divVars, operatorVars>>

NextGenerate ==
    \/ MainAssertPanics
    \/ GenerateProofCalled
    \/ SetHeaderTargets
    \/ HeaderIndexPanics
    \/ AssignPair
    \/ PairPanics
    \/ ProveReturns

(***************************************************************************)
(* Specifications.                                                         *)
(***************************************************************************)
IdleDiv ==
    /\ ipc = "idle"
    /\ int_div_args = <<>>
    /\ int_div_witness = <<>>

IdleOperator ==
    /\ opc = "idle"
    /\ header_sub = <<>>
    /\ justification_sub = <<>>
    /\ last_processed_block_num = <<>>
    /\ headers = {}
    /\ justification_to_process = <<>>
    /\ requests = 0
    /\ proof_gen_call = <<>>

IdleGenerate ==
    /\ gpc = "idle"
    /\ generate_args = <<>>
    /\ generate_pw = <<>>
    /\ generate_result = <<>>

IdleBuild ==
    /\ pc = "idle"
    /\ max_encoded_header_length = 0
    /\ num_validators = 0
    /\ builder = NewBuilder
    /\ grandpa_justif_targets = <<>>

IdleDecode ==
    /\ dpc = "idle"
    /\ expected_int = <<>>
    /\ expected_parent_hash = <<>>
    /\ expected_state_root = <<>>
    /\ encoded_bytes = <<>>
    /\ decoded_compact = <<>>
    /\ header_bytes_target = <<>>
    /\ header_size_target = 0
    /\ decoded_header = <<>>

IdleProve ==
    /\ wpc = "idle"
    /\ inputs = <<>>
    /\ pw = <<>>
    /\ perturbed = NotPerturbed
    /\ proof = <<>>

BuildInit == InitBuild /\ IdleDecode /\ IdleProve /\ IdleDiv /\ IdleOperator /\ IdleGenerate

DecodeInit == InitDecode /\ IdleBuild /\ IdleProve /\ IdleDiv /\ IdleOperator /\ IdleGenerate

ProveInit == InitProve /\ IdleDecode /\ IdleDiv /\ IdleOperator /\ IdleGenerate

DivInit == InitDiv /\ IdleBuild /\ IdleDecode /\ IdleProve /\ IdleOperator /\ IdleGenerate

SpecBuild == BuildInit /\ [][NextBuild]_vars

SpecDecode == DecodeInit /\ [][NextDecode]_vars

SpecProve == ProveInit /\ [][NextProve]_vars

SpecDiv == DivInit /\ [][NextDiv]_vars

OperatorInit == InitOperator /\ IdleBuild /\ IdleDecode /\ IdleProve /\ IdleDiv /\ IdleGenerate

SpecOperator == OperatorInit /\ [][NextOperator]_vars

GenerateInit ==
    InitGenerate /\ IdleBuild /\ IdleDecode /\ IdleProve /\ IdleDiv /\ IdleOperator

SpecGenerate == GenerateInit /\ [][NextGenerate]_vars

(***************************************************************************)
(* Properties of the builder.                                              *)
(***************************************************************************)
\* C1: for every max_header_bytes >= 98 and every N >= 1 the builder runs
\* to completion without a panic, and the bundle it returns has
\* max_header_bytes header targets, 53 message targets and N signatures
\* and N public keys.
C1_BuilderCompletes ==
    (max_encoded_header_length >= MinHeaderBytes /\ num_validators >= 1)
        => /\ pc # "panicked"
           /\ pc = "done" =>
                 /\ Len(grandpa_justif_targets.encoded_header) = max_encoded_header_length
                 /\ Len(grandpa_justif_targets.encoded_message) = ENCODED_MESSAGE_LENGTH
                 /\ Len(grandpa_justif_targets.signatures) = num_validators
                 /\ Len(grandpa_justif_targets.pub_keys) = num_validators

\* C7: each of the N signature gadgets has its 424 message bits connected
\* to the same message bits, bit 8i+j being bit 7-j of message byte i, and
\* signatures[k] and pub_keys[k] of the bundle are the handles of the k-th
\* gadget created.
C7_GadgetsShareMessageBits ==
    pc = "done" =>
        /\ Len(builder.eddsa) = num_validators
        /\ Len(grandpa_justif_targets.signatures) = num_validators
        /\ Len(grandpa_justif_targets.pub_keys) = num_validators
        /\ \A i \in 0..(ENCODED_MESSAGE_LENGTH - 1) :
              <<MessageTarget(i), 8>> \in builder.splits
        /\ \A k \in 1..num_validators :
              /\ Len(builder.eddsa[k].msg) = 424
              /\ \A i \in 0..(ENCODED_MESSAGE_LENGTH - 1), j \in 0..7 :
                    builder.eddsa[k].msg[8 * i + j + 1] = MessageBit(i, 7 - j)
              /\ builder.eddsa[k].sig = SignatureTarget(k - 1)
              /\ builder.eddsa[k].pub_key = PublicKeyTarget(k - 1)
              /\ grandpa_justif_targets.signatures[k] = builder.eddsa[k].sig
              /\ grandpa_justif_targets.pub_keys[k] = builder.eddsa[k].pub_key

C7_TwoGadgetsBuilt ==
    /\ pc = "done"
    /\ num_validators >= 2
    /\ Len(builder.eddsa) = num_validators

\* C8: in a circuit the builder has completed, bit 8i+j of the Blake2b
\* message is bit 7-j of header byte i, for every header byte, and the
\* message_len of the gadget is the encoded_header_length of the bundle.
C8_HeaderBitsReachBlake2b ==
    pc = "done" =>
        /\ Len(builder.blake_message) = 8 * max_encoded_header_length
        /\ \A i \in 0..(max_encoded_header_length - 1) :
              /\ <<grandpa_justif_targets.encoded_header[i + 1], 8>> \in builder.splits
              /\ grandpa_justif_targets.encoded_header[i + 1] = HeaderTarget(i)
              /\ \A j \in 0..7 : builder.blake_message[8 * i + j + 1] = HeaderBit(i, 7 - j)
        /\ builder.blake_message_len = <<grandpa_justif_targets.encoded_header_length>>

C8_LargestHeaderWired ==
    /\ pc = "done"
    /\ max_encoded_header_length = MAX_HEADER_SIZE
    /\ Len(builder.blake_message) = 8 * MAX_HEADER_SIZE

(***************************************************************************)
(* Properties of the decoders.                                             *)
(***************************************************************************)
ModeLength(m) == <<1, 2, 4, 5>>[m + 1]

\* The values the round trip is required at, with the mode and the length
\* of each.
BoundaryValues ==
    { <<IntLimbs(0, 4), 0, 1>>,     <<IntLimbs(1, 4), 0, 1>>,     <<IntLimbs(63, 4), 0, 1>>,
      <<IntLimbs(64, 4), 1, 2>>,    <<IntLimbs(65, 4), 1, 2>>,    <<IntLimbs(16383, 4), 1, 2>>,
      <<IntLimbs(16384, 4), 2, 4>>, <<<<255, 255, 255, 63>>, 2, 4>>,
      <<<<0, 0, 0, 64>>, 3, 5>> }

\* C9: decode_compact_int on the canonical compact encoding of v, padded
\* to 5 bytes, returns v, the mode of the range v is in and the length
\* 1, 2, 4 or 5 of that mode; at 0, 1, 63, 64, 65, 16383, 16384, 2^30-1 and
\* 2^30 the modes are 0,0,0,1,1,1,2,2,3 and the lengths 1,1,1,2,2,2,4,4,5.
C9_CompactRoundTrip ==
    dpc = "compact_decoded" =>
        /\ Len(encoded_bytes) = MAX_BLOCK_NUMBER_SIZE
        /\ decoded_compact.satisfied
        /\ decoded_compact.out.decoded_int = expected_int \o Zeros(4)
        /\ decoded_compact.out.compress_mode = ModeOf(expected_int)
        /\ decoded_compact.out.encoded_byte_length = ModeLength(ModeOf(expected_int))
        /\ \A bv \in BoundaryValues :
              expected_int = bv[1] =>
                  /\ decoded_compact.out.compress_mode = bv[2]
                  /\ decoded_compact.out.encoded_byte_length = bv[3]

C9_FourByteValueDecoded ==
    /\ dpc = "compact_decoded"
    /\ expected_int = <<0, 0, 0, 64>>
    /\ decoded_compact.out.compress_mode = 3
    /\ decoded_compact.out.decoded_int = <<0, 0, 0, 64, 0, 0, 0, 0>>

\* C10: decode_header on the encoding of a header with parent hash P, block
\* number n and state root S, padded with zeros, returns bytes 0..32 = P,
\* n, and the 32 bytes at offset 32 + the length of the compact number
\* (33, 34, 36 or 37) = S.
C10_HeaderRoundTrip ==
    dpc = "header_decoded" =>
        LET offset == 32 + ModeLength(ModeOf(expected_int))
        IN  /\ Len(header_bytes_target) = MAX_HEADER_SIZE
            /\ decoded_header.satisfied
            /\ decoded_header.out.parent_hash = SubSeq(header_bytes_target, 1, 32)
            /\ decoded_header.out.parent_hash = expected_parent_hash
            /\ decoded_header.out.block_number = expected_int \o Zeros(4)
            /\ offset \in {33, 34, 36, 37}
            /\ decoded_header.out.state_root = SubSeq(header_bytes_target, offset + 1, offset + 32)
            /\ decoded_header.out.state_root = expected_state_root

C10_RootAfterFourByteNumber ==
    /\ dpc = "header_decoded"
    /\ ModeOf(expected_int) = 2
    /\ decoded_header.out.state_root = expected_state_root
    /\ decoded_header.out.state_root = SubSeq(header_bytes_target, 37, 68)

(***************************************************************************)
(* Properties of the constraints, under the assignments of a proof attempt.*)
(* Of the two targets of int_div only the quotient is connected to another *)
(* target, and only when the mode is not 3.  When some quotient and        *)
(* remainder satisfy the constraints, so does the second pair of           *)
(* IntDivAssignments: in mode 3 every pair that meets the constraint of    *)
(* int_div does, and otherwise the connection fixes the quotient and the   *)
(* constraint of int_div then fixes the remainder.  The proof attempts     *)
(* with the pairs of IntDivAssignments so decide whether any pair exists.  *)
(***************************************************************************)
\* The change made is of one bit of a byte of the header.
HeaderFlipped ==
    /\ perturbed.kind = "encoded_header"
    /\ perturbed.bit < 8
    /\ perturbed.index < pw.encoded_header_length

\* The change made is of one bit of the digest in the message.
DigestFlipped ==
    /\ perturbed.kind = "encoded_message"
    /\ perturbed.bit < 8
    /\ perturbed.index \in 1..HASH_SIZE

\* The change made is of one bit of the block number in the message.
BlockNumFlipped ==
    /\ perturbed.kind = "encoded_message"
    /\ perturbed.bit < 8
    /\ perturbed.index \in (HASH_SIZE + 1)..(HASH_SIZE + 4)

SignatureFlipped == perturbed.kind = "signature"

\* C2: after a change of one bit of a header byte, of a digest byte of the
\* message, of a block-number byte of the message or of a signature, no
\* assignment of the targets of int_div satisfies the constraints.
C2_OneBitChangeUnprovable ==
    (/\ wpc = "proved"
     /\ HeaderFlipped \/ DigestFlipped \/ BlockNumFlipped \/ SignatureFlipped)
        => ~proof.satisfied

\* The block number decode_header derives from the compact integer at
\* header bytes 32..37: the output of the decoder under the assignment of
\* the witness generator of int_div.
HeaderBlockNumber(header_bytes) ==
    DecodeHeader(header_bytes, HeaderDivWitness(header_bytes).quotient).block_number

\* C3: in every assignment that satisfies the constraints, message bytes
\* 33..37 read little-endian are the block number the header decoder
\* derives from the compact integer at header bytes 32..37.
C3_MessageNumberIsHeaderNumber ==
    (wpc = "proved" /\ proof.satisfied)
        => Reduce(256, Limbs(SubSeq(pw.encoded_message, HASH_SIZE + 2, HASH_SIZE + 5)))
               = HeaderBlockNumber(pw.encoded_header)

\* The byte with most significant bit digest[8i] and least significant bit
\* digest[8i + 7].
DigestByte(digest, i) ==
    LET d == SubSeq(digest, 8 * i + 1, 8 * i + 8)
    IN  d[8] + 2 * d[7] + 4 * d[6] + 8 * d[5] + 16 * d[4] + 32 * d[3] + 64 * d[2] + 128 * d[1]

\* The byte with least significant bit digest[8i].
DigestByteInOrder(digest, i) ==
    LET d == SubSeq(digest, 8 * i + 1, 8 * i + 8)
    IN  d[1] + 2 * d[2] + 4 * d[3] + 8 * d[4] + 16 * d[5] + 32 * d[6] + 64 * d[7] + 128 * d[8]

\* C4: in every assignment that satisfies the constraints, message byte
\* 1 + i is the sum over b of digest bit 8i + (7 - b) times 2^b, for each i
\* in [0, 32); the assignment of the driver, unchanged, satisfies them.
C4_DigestBytesMsbFirst ==
    wpc = "proved" =>
        /\ proof.satisfied =>
              LET digest == Blake2bDigest(builder, pw)
              IN  \A i \in 0..(HASH_SIZE - 1) :
                      pw.encoded_message[i + 2] = DigestByte(digest, i)
        /\ perturbed.kind = "none" => proof.satisfied

C4_DigestAccepted ==
    /\ wpc = "proved"
    /\ proof.satisfied
    /\ num_validators >= 1
    /\ LET digest == Blake2bDigest(builder, pw)
       IN  \E i \in 0..(HASH_SIZE - 1) :
               /\ pw.encoded_message[i + 2] = DigestByte(digest, i)
               /\ DigestByte(digest, i) # DigestByteInOrder(digest, i)

\* C5: in every assignment that satisfies the constraints, message byte 0
\* is 1; with any other value there the constraints are not satisfied.
C5_TagIsOne ==
    wpc = "proved" =>
        /\ proof.satisfied => pw.encoded_message[1] = 1
        /\ pw.encoded_message[1] # 1 => ~proof.satisfied

C5_OtherTagRejected ==
    /\ wpc = "proved"
    /\ perturbed.kind = "encoded_message"
    /\ perturbed.index = 0
    /\ perturbed.bit < 8
    /\ num_validators = 0
    /\ pw.encoded_message[1] # 1
    /\ ~proof.satisfied

\* C6: the circuit has an 8-bit range check on each of the
\* max_header_bytes header targets and each of the 53 message targets, and
\* in every assignment that satisfies the constraints each of their values
\* is in 0..255.
C6_BytesRangeChecked ==
    wpc = "proved" =>
        /\ Len(grandpa_justif_targets.encoded_header) = max_encoded_header_length
        /\ Len(grandpa_justif_targets.encoded_message) = ENCODED_MESSAGE_LENGTH
        /\ \A i \in 1..max_encoded_header_length :
              <<grandpa_justif_targets.encoded_header[i], 8>> \in builder.range_checks
        /\ \A i \in 1..ENCODED_MESSAGE_LENGTH :
              <<grandpa_justif_targets.encoded_message[i], 8>> \in builder.range_checks
        /\ proof.satisfied =>
              /\ \A i \in 1..max_encoded_header_length : pw.encoded_header[i] \in 0..255
              /\ \A i \in 1..ENCODED_MESSAGE_LENGTH : pw.encoded_message[i] \in 0..255

C6_LargeValueRejected ==
    /\ wpc = "proved"
    /\ perturbed.bit = 8
    /\ perturbed.kind = "encoded_message"
    /\ perturbed.index = ENCODED_MESSAGE_LENGTH - 1
    /\ pw.encoded_message[ENCODED_MESSAGE_LENGTH] > 255
    /\ ~RangeChecksHold(builder, pw)
    /\ ~proof.satisfied

(***************************************************************************)
(* Properties of int_div.                                                  *)
(***************************************************************************)
\* The low four limbs of a field element below 2^32.
U32(x) == SubSeq(x, 1, 4)

\* q and r are the quotient and the remainder of the division of two
\* u32 values: q * divisor + r = dividend in the integers, and r < divisor.
IsFloorDiv(dividend, divisor, q, r) ==
    /\ SubSeq(q, 5, 8) = Zeros(4)
    /\ SubSeq(r, 5, 8) = Zeros(4)
    /\ AddLimbs[MulLimbs[U32(q), U32(divisor)], r, 0] = dividend \o <<0>>
    /\ ~GeLimbs[r, divisor]

\* C11: for a dividend and a non-zero divisor below 2^32, after the witness
\* generator has run the quotient target holds floor(dividend / divisor),
\* the remainder target holds dividend mod divisor, the constraint
\* quotient * divisor + remainder = dividend holds, and int_div returns the
\* quotient target.
C11_GeneratorDivides ==
    /\ ipc = "generated" =>
          /\ IsFloorDiv(int_div_args.dividend, int_div_args.divisor,
                        int_div_witness.quotient, int_div_witness.remainder)
          /\ int_div_witness.satisfied
          /\ IntDivReturn(int_div_witness) = int_div_witness.quotient
    /\ (ipc = "called" /\ int_div_args.divisor # Zeros(8)) => ENABLED GeneratorRuns

C11_LargeDividendDivided ==
    /\ ipc = "generated"
    /\ int_div_args.dividend = <<255, 255, 255, 255, 0, 0, 0, 0>>
    /\ int_div_args.divisor = IntLimbs(65537, 8)
    /\ int_div_witness.quotient = IntLimbs(65535, 8)
    /\ int_div_witness.remainder = Zeros(8)

\* C15: the one constraint on the quotient and remainder targets is
\* quotient * divisor + remainder = dividend: an assignment with a
\* remainder not below the divisor, and so a quotient that is not
\* floor(dividend / divisor), satisfies everything int_div emits.
C15_RemainderNotBounded ==
    ipc = "forged" =>
        /\ int_div_witness.satisfied
        /\ GeLimbs[int_div_witness.remainder, int_div_args.divisor]
        /\ int_div_witness.quotient #
              FloorDivGenerator(int_div_args.dividend, int_div_args.divisor).quotient

C15_ForgedQuotientAccepted ==
    /\ ipc = "forged"
    /\ int_div_args.dividend = IntLimbs(65, 8)
    /\ int_div_args.divisor = IntLimbs(4, 8)
    /\ int_div_witness.quotient = IntLimbs(15, 8)
    /\ int_div_witness.remainder = IntLimbs(5, 8)
    /\ int_div_witness.satisfied

(***************************************************************************)
(* Properties of main_loop.                                                *)
(***************************************************************************)
\* C12: proving jobs are dispatched one after the other: at most one call
\* of submit_proof_gen_request is outstanding at any time, and from the start of
\* submit_proof_gen_request to its return no event is consumed from the
\* header subscription or from the justification subscription.
C12_SequentialDispatch ==
    /\ [](requests <= 1)
    /\ [][requests > 0 => UNCHANGED <<header_sub, justification_sub>>]_vars

C12_RequestOutstandingEventsPending ==
    /\ proof_gen_call # <<>>
    /\ requests = 1
    /\ header_sub # <<>>
    /\ justification_sub # <<>>

(***************************************************************************)
(* Properties of the message tail.                                         *)
(***************************************************************************)
\* The least value of a byte in the first byte of encoded_message[37..52],
\* and the greatest value in the last.
TailChanges == {<<37, 0>>, <<ENCODED_MESSAGE_LENGTH - 1, 255>>}

\* C13: the bytes encoded_message[37..52] are constrained by the 8-bit
\* range checks and by the signature gadgets they are fed to, and by
\* nothing else: of two witnesses that differ in one of those bytes only,
\* both values within 0..255, one satisfies every constraint other than
\* those of the signature gadgets exactly when the other does.  The first
\* witness is the one set by the driver, or that one changed in the tag
\* or in the first or the last of those bytes.
C13_TailBytesFree ==
    (/\ wpc = "proved"
     /\ \/ perturbed.kind = "none"
        \/ perturbed.kind = "encoded_message"
           /\ perturbed.index \in {0, 37, ENCODED_MESSAGE_LENGTH - 1}) =>
        \A change \in TailChanges :
            pw.encoded_message[change[1] + 1] <= 255 =>
                (SatisfiedButEddsa(builder, pw)
                   <=> SatisfiedButEddsa(builder,
                                         [pw EXCEPT !.encoded_message[change[1] + 1] = change[2]]))

C13_TailChangeOnlySignaturesFail ==
    /\ wpc = "proved"
    /\ perturbed = [kind |-> "encoded_message", index |-> 37, bit |-> 0]
    /\ num_validators > 0
    /\ SatisfiedButEddsa(builder, pw)
    /\ ~EddsaSatisfied(builder, pw)
    /\ ~proof.satisfied

(***************************************************************************)
(* Properties of the size of the Blake2b gadget.                           *)
(***************************************************************************)
\* C14: the Blake2b gadget has a message of 128 * 8 * ceil(max_header_bytes
\* / 128) bits and a digest of 32 bytes, so that every header bit index
\* 8 * i + j with i < max_header_bytes is an index into its message bits.
C14_CapacityFollowsHeaderSize ==
    builder.blake_message_bits > 0 =>
        /\ builder.blake_message_bits =
              CHUNK_128_BYTES * 8
              * ((max_encoded_header_length + CHUNK_128_BYTES - 1) \div CHUNK_128_BYTES)
        /\ builder.blake_digest_bits = 32 * 8
        /\ 8 * max_encoded_header_length <= builder.blake_message_bits

(***************************************************************************)
(* Properties of decode_compact_int on windows of five bytes.              *)
(***************************************************************************)
\* The canonical window of the number encoded: zeros after the encoding.
CanonicalWindow == PadZeros(CompactEncode(expected_int), MAX_BLOCK_NUMBER_SIZE)

\* The call of int_div made in the state: on the window, or on the bytes
\* 32..37 of the header.
CallsOfIntDiv ==
    IF dpc \in {"compact_decoded", "window_decoded"} THEN {decoded_compact.int_div}
    ELSE IF dpc = "header_decoded"
         THEN {IntDivCall(SubSeq(header_bytes_target, 33, 32 + MAX_BLOCK_NUMBER_SIZE))}
    ELSE {}

\* C16 as stated: every call of int_div reached from decode_compact_int or
\* decode_header has the constant 4 as divisor and a dividend that fits
\* in a byte.
C16_DividendFitsInByte ==
    \A call \in CallsOfIntDiv :
        /\ call.divisor = FromCanonical(4)
        /\ SubSeq(call.dividend, 2, 8) = Zeros(7)

\* C16, amended: every call of int_div reached from decode_compact_int or
\* decode_header has the constant 4 as divisor and as dividend the value
\* selected by the mode, below 2^32: the bytes 0..0, 0..1 or 0..3 of the
\* window in little-endian order for the modes 0, 1 and 2 (4 * n + mode on
\* the encoding of n) and the bytes 1..4 for mode 3.
C16_DividendIsSelectedValue ==
    \A call \in CallsOfIntDiv :
        /\ call.divisor = FromCanonical(4)
        /\ SubSeq(call.dividend, 5, 8) = Zeros(4)
        /\ LET m == ModeOf(expected_int)
           IN  IF m = 3 THEN call.dividend = expected_int \o Zeros(4)
               ELSE call.dividend = ScaleLimbs[expected_int, 4, m] \o Zeros(3)

C16_TwoByteDividend ==
    /\ dpc = "window_decoded"
    /\ expected_int = IntLimbs(64, 4)
    /\ encoded_bytes = <<1, 1, 255, 255, 255>>
    /\ decoded_compact.int_div = [dividend |-> IntLimbs(257, 8), divisor |-> IntLimbs(4, 8)]

\* C17: in the modes 0, 1 and 2 the three outputs of decode_compact_int
\* do not depend on the bytes after the encoding: a window that agrees
\* with the canonical window on byte 0 (mode 0), bytes 0..1 (mode 1) or
\* bytes 0..3 (mode 2) gives the outputs of the canonical window.
C17_TrailingBytesIgnored ==
    (dpc = "window_decoded" /\ CompressMode(encoded_bytes) < 3) =>
        /\ encoded_bytes # CanonicalWindow
        /\ decoded_compact.satisfied
        /\ decoded_compact.out =
              DecodeCompactInt(CanonicalWindow, CompactDivWitness(CanonicalWindow).quotient)
        /\ decoded_compact.out.decoded_int = expected_int \o Zeros(4)

C17_FilledWindowDecoded ==
    /\ dpc = "window_decoded"
    /\ expected_int = IntLimbs(65, 4)
    /\ encoded_bytes = <<5, 1, 255, 255, 255>>
    /\ decoded_compact.out.decoded_int = IntLimbs(65, 8)
    /\ decoded_compact.out.compress_mode = 1
    /\ decoded_compact.out.encoded_byte_length = 2

\* C18: in mode 3 the outputs do not depend on the upper six bits of the
\* first byte: each of the 64 first bytes with the low bits 11 gives the
\* value of bytes 1..4 in little-endian order, mode 3 and the length 5,
\* and no constraint rejects a first byte with upper bits that are not 0.
C18_UpperBitsIgnored ==
    (dpc = "window_decoded" /\ CompressMode(encoded_bytes) = 3) =>
        /\ encoded_bytes[1] \div 4 \in UpperBits
        /\ decoded_compact.satisfied
        /\ decoded_compact.out.decoded_int = SubSeq(encoded_bytes, 2, 5) \o Zeros(4)
        /\ decoded_compact.out.compress_mode = 3
        /\ decoded_compact.out.encoded_byte_length = 5
        /\ decoded_compact.out =
              DecodeCompactInt(CanonicalWindow, CompactDivWitness(CanonicalWindow).quotient)

C18_AllUpperBitsSetAccepted ==
    /\ dpc = "window_decoded"
    /\ encoded_bytes = <<255, 255, 255, 255, 255>>
    /\ decoded_compact.satisfied
    /\ decoded_compact.out.decoded_int = <<255, 255, 255, 255, 0, 0, 0, 0>>
    /\ decoded_compact.out.encoded_byte_length = 5

(***************************************************************************)
(* Properties of the builder without validators.                           *)
(***************************************************************************)
\* C20: with num_validators = 0 and a header size the builder completes
\* at, the builder does not panic, emits the constraints of the header, of
\* Blake2b and of the message, makes no signature gadget and returns a
\* bundle whose signatures and pub_keys are empty.
C20_NoValidatorsAccepted ==
    (num_validators = 0 /\ max_encoded_header_length \in MinHeaderBytes..MAX_HEADER_SIZE) =>
        /\ pc # "panicked"
        /\ pc = "validators" => ENABLED DoReturn
        /\ pc = "done" =>
              /\ \A i \in 0..(max_encoded_header_length - 1) :
                    /\ <<HeaderTarget(i), 8>> \in builder.range_checks
                    /\ <<HeaderTarget(i), 8>> \in builder.splits
              /\ builder.decoder_input # <<>>
              /\ builder.blake_message_bits = CHUNK_128_BYTES * 8 * 10
              /\ Len(builder.blake_message) = 8 * max_encoded_header_length
              /\ builder.blake_message_len = <<HeaderLengthTarget>>
              /\ \A i \in 0..(ENCODED_MESSAGE_LENGTH - 1) :
                    /\ <<MessageTarget(i), 8>> \in builder.range_checks
                    /\ <<MessageTarget(i), 8>> \in builder.splits
              /\ <<MessageTarget(0), ConstantTarget(1)>> \in builder.connects
              /\ \A i \in 0..31 :
                    <<DigestByteTarget(i), MessageTarget(i + 1)>> \in builder.connects
              /\ <<MessageBlockNum, DecoderBlockNum>> \in builder.connects
              /\ Len(builder.encoded_msg_bits) = ENCODED_MESSAGE_LENGTH * 8
              /\ builder.eddsa = <<>>
              /\ grandpa_justif_targets.signatures = <<>>
              /\ grandpa_justif_targets.pub_keys = <<>>
              /\ Len(grandpa_justif_targets.encoded_header) = max_encoded_header_length
              /\ Len(grandpa_justif_targets.encoded_message) = ENCODED_MESSAGE_LENGTH

C20_BuiltWithoutValidators ==
    /\ pc = "done"
    /\ num_validators = 0
    /\ max_encoded_header_length = MAX_HEADER_SIZE
    /\ builder.eddsa = <<>>
    /\ grandpa_justif_targets.signatures = <<>>

(***************************************************************************)
(* Properties of the length target.                                        *)
(***************************************************************************)
\* C19: every witness that satisfies the constraints of the built circuit
\* has an encoded_header_length L with 0 <= L <= max_header_bytes.
C19_LengthWithinHeader ==
    (wpc = "proved" /\ proof.satisfied) =>
        /\ 0 <= pw.encoded_header_length
        /\ pw.encoded_header_length <= max_encoded_header_length

(***************************************************************************)
(* Properties of submit_proof_gen_request.                                 *)
(***************************************************************************)
\* C21: a call of submit_proof_gen_request with seven or more precommits
\* and an authority set with three or more keys that are no key of the
\* first seven signers completes the padding and hands on exactly ten
\* public keys: the seven signers followed by three other authorities.
C21_PaddedToTenKeys ==
    (/\ proof_gen_call # <<>>
     /\ Len(proof_gen_call.justification.precommits) >= SignersTaken
     /\ Cardinality(Range(proof_gen_call.authority_set)
                      \ Range(PublicKeys(proof_gen_call.justification))) >= KeysAdded)
        => /\ ~proof_gen_call.panicked
           /\ Len(proof_gen_call.public_keys) = SignersTaken + KeysAdded
           /\ SubSeq(proof_gen_call.public_keys, 1, SignersTaken)
                 = PublicKeys(proof_gen_call.justification)
           /\ Range(proof_gen_call.public_keys) \subseteq Range(proof_gen_call.authority_set)

(***************************************************************************)
(* Properties of the saved justification.                                  *)
(***************************************************************************)
\* C24: a justification taken from the subscription is saved only if a
\* header has come, none is saved and its target is MinBatch or more blocks
\* after the last processed block (it is then saved, or dropped at once
\* when its header is there and a precommit has another target); every
\* other justification is dropped and leaves the last processed block, the
\* downloaded headers and the saved justification as they are.
C24_SavedOnlyWhenDue ==
    [][justification_sub' # justification_sub =>
          LET unwrapped_just == Head(justification_sub)
          IN  IF /\ last_processed_block_num # <<>>
                 /\ justification_to_process = <<>>
                 /\ unwrapped_just.target_number >= last_processed_block_num[1] + MinBatch
              THEN /\ justification_to_process' \in {<<unwrapped_just>>, <<>>}
                   /\ justification_to_process' = <<>> =>
                         /\ unwrapped_just.target_number \in headers
                         /\ \E i \in DOMAIN unwrapped_just.precommits :
                               unwrapped_just.precommits[i].target_number
                                  # unwrapped_just.target_number
                   /\ UNCHANGED <<last_processed_block_num, headers>>
              ELSE /\ UNCHANGED <<last_processed_block_num, headers, justification_to_process>>
                   /\ opc' \in {"select", "panicked"}]_vars

C24_SavedAndOtherDropped ==
    /\ opc = "select"
    /\ justification_to_process = <<Signed(1 + MinBatch, SignersTaken)>>
    /\ justification_sub = <<>>
    /\ last_processed_block_num = <<1>>
    /\ headers = {1, 2}

TargetMismatch(unwrapped_just) ==
    \E i \in DOMAIN unwrapped_just.precommits :
        unwrapped_just.precommits[i].target_number # unwrapped_just.target_number

\* A signature of the justification does not verify.
BadSignature(unwrapped_just) ==
    \E i \in DOMAIN unwrapped_just.precommits : ~unwrapped_just.precommits[i].is_ok

\* C26: a saved justification with a precommit for another block or with a
\* signature that does not verify is dropped and never handed to
\* submit_proof_gen_request: it does not outlast the iteration that finds
\* its header, the step that examines it drops it unless the fetch before
\* it ends main_loop, and a step that drops a justification makes no call,
\* leaves the last processed block as it is and removes no header.
C26_DefectiveDropped ==
    /\ [](proof_gen_call # <<>> =>
             /\ ~TargetMismatch(proof_gen_call.justification)
             /\ ~BadSignature(proof_gen_call.justification))
    /\ []((justification_to_process # <<>> /\ TargetMismatch(justification_to_process[1])) =>
             /\ opc # "fetching"
             /\ justification_to_process[1].target_number \notin headers)
    /\ [][/\ (/\ opc = "fetching"
              /\ BadSignature(justification_to_process[1])) =>
                \/ justification_to_process' = <<>> /\ opc' = "select"
                \/ opc' = "panicked" /\ UNCHANGED <<requests, justification_to_process>>
          /\ (/\ justification_to_process # <<>>
              /\ TargetMismatch(justification_to_process[1])
              /\ justification_to_process[1].target_number \in headers') =>
                justification_to_process' = <<>> /\ opc' = "select"
          /\ (/\ justification_sub' = justification_sub
              /\ justification_to_process # <<>>
              /\ justification_to_process' = <<>>) =>
                /\ \/ TargetMismatch(justification_to_process[1])
                   \/ BadSignature(justification_to_process[1])
                /\ UNCHANGED <<requests, proof_gen_call, last_processed_block_num>>
                /\ headers \subseteq headers'
                /\ headers' \subseteq headers \cup {justification_to_process[1].target_number}
         ]_vars

C26_BadSignatureExamined ==
    /\ opc = "fetching"
    /\ Len(justification_to_process[1].precommits) = SignersTaken
    /\ justification_to_process[1].precommits[1].is_ok
    /\ BadSignature(justification_to_process[1])

(***************************************************************************)
(* Properties of the header batch and of the last processed block.         *)
(***************************************************************************)
\* The headers downloaded so far have consecutive numbers from the first.
ReceivedConsecutive ==
    /\ last_processed_block_num # <<>>
    /\ \A number \in headers :
          /\ number >= last_processed_block_num[1]
          /\ \A before \in last_processed_block_num[1]..number : before \in headers

\* C27: the batch handed to submit_proof_gen_request for a justification
\* with target T is the headers last_processed_block_num + 1 .. T in
\* ascending order, MinBatch or more of them; they were downloaded and are
\* removed from the map by the step that makes the call; and while the
\* headers downloaded are consecutive, building the batch cannot unwrap a
\* header that is missing.
C27_BatchIsTheInterval ==
    /\ [](proof_gen_call # <<>> =>
             LET T == proof_gen_call.justification.target_number
                 last == proof_gen_call.head_block_num
             IN  /\ Len(proof_gen_call.header_batch) = T - last
                 /\ Len(proof_gen_call.header_batch) >= MinBatch
                 /\ \A i \in 1..(T - last) : proof_gen_call.header_batch[i] = last + i
                 /\ last_processed_block_num = <<last>>
                 /\ \A i \in 1..(T - last) : proof_gen_call.header_batch[i] \notin headers)
    /\ [](ReceivedConsecutive => ~ENABLED HeaderBatchPanics)
    /\ [][requests' # requests =>
             /\ \A i \in DOMAIN proof_gen_call'.header_batch :
                   proof_gen_call'.header_batch[i] \in headers
             /\ headers' = {number \in headers :
                               \A i \in DOMAIN proof_gen_call'.header_batch :
                                   proof_gen_call'.header_batch[i] # number}]_vars

C27_FiveHeadersTakenOut ==
    /\ proof_gen_call # <<>>
    /\ proof_gen_call.header_batch = <<2, 3, 4, 5, 6>>
    /\ headers = {1}
    /\ header_sub # <<>>
    /\ Head(header_sub) = 7

\* C28: last_processed_block_num is set by the first header; afterwards it
\* changes only when submit_proof_gen_request returns, to the target of
\* the justification dispatched, MinBatch or more blocks on, with the saved
\* justification cleared; so every dispatch that is over has moved it to
\* the target dispatched.
C28_AdvancesAtEachDispatch ==
    /\ [][last_processed_block_num' # last_processed_block_num =>
             \/ /\ last_processed_block_num = <<>>
                /\ header_sub # <<>>
                /\ last_processed_block_num' = <<Head(header_sub)>>
             \/ /\ opc = "submitting"
                /\ last_processed_block_num' = <<proof_gen_call.justification.target_number>>
                /\ last_processed_block_num'[1] >= last_processed_block_num[1] + MinBatch
                /\ justification_to_process' = <<>>]_vars
    /\ []((proof_gen_call # <<>> /\ opc # "submitting") =>
             /\ last_processed_block_num = <<proof_gen_call.justification.target_number>>
             /\ justification_to_process = <<>>)

(***************************************************************************)
(* Properties of the quorum.                                               *)
(***************************************************************************)
\* C22 as stated: the quorum the code uses, and the number of signatures a
\* call carries for an authority set of n = NUM_VALIDATORS keys, is at
\* least ceil(2n/3) + 1.
C22_QuorumAtLeastCeilingPlusOne ==
    (/\ proof_gen_call # <<>>
     /\ Len(proof_gen_call.authority_set) = NUM_VALIDATORS
     /\ Len(proof_gen_call.justification.precommits) >= QUORUM_SIZE)
        => /\ QUORUM_SIZE >= (2 * NUM_VALIDATORS + 2) \div 3 + 1
           /\ Len(proof_gen_call.signatures) >= (2 * NUM_VALIDATORS + 2) \div 3 + 1

\* C22: QUORUM_SIZE is floor(2n/3) + 1 for n = NUM_VALIDATORS, the least
\* number of signers that is more than two thirds of the authority set,
\* and a call made for a justification with QUORUM_SIZE precommits or more
\* carries the signatures and the keys of exactly QUORUM_SIZE signers.
C22_QuorumIsFloorPlusOne ==
    /\ QUORUM_SIZE = (2 * NUM_VALIDATORS) \div 3 + 1
    /\ 3 * QUORUM_SIZE > 2 * NUM_VALIDATORS
    /\ 3 * (QUORUM_SIZE - 1) <= 2 * NUM_VALIDATORS
    /\ (/\ proof_gen_call # <<>>
        /\ Len(proof_gen_call.justification.precommits) >= QUORUM_SIZE)
          => /\ Len(proof_gen_call.signatures) = QUORUM_SIZE
             /\ \A i \in 1..QUORUM_SIZE :
                   proof_gen_call.public_keys[i] = proof_gen_call.justification.precommits[i].id

C22_SevenOfEightSignersTaken ==
    /\ proof_gen_call # <<>>
    /\ Len(proof_gen_call.authority_set) = NUM_VALIDATORS
    /\ Len(proof_gen_call.justification.precommits) = QUORUM_SIZE + 1
    /\ Len(proof_gen_call.signatures) = QUORUM_SIZE

(***************************************************************************)
(* Properties of generate_proof.                                           *)
(***************************************************************************)
\* C23 as stated: with seven pairs or more generate_proof returns and does
\* not panic.
C23_SevenPairsNeverPanic ==
    (gpc # "idle" /\ Len(generate_args.pairs) >= SignaturesVerified) => gpc # "panicked"

\* C23: generate_proof sets the witness of exactly the first seven pairs,
\* however many it is given.  Given seven or more and a header of no more
\* bytes than the circuit has header targets, it returns Some(proof) or
\* None and does not panic; given fewer than seven it never returns and
\* panics at the first index past the pairs it has; given a longer header
\* it panics at the first header target past those of the circuit.
C23_FirstSevenPairsSet ==
    /\ [](gpc \in {"header", "pairs", "returned", "panicked"} =>
             /\ generate_pw.pairs <= SignaturesVerified
             /\ generate_pw.pairs <= Len(generate_args.pairs)
             /\ gpc = "returned" =>
                   /\ generate_pw.pairs = SignaturesVerified
                   /\ Len(generate_args.pairs) >= SignaturesVerified
                   /\ generate_args.encoded_header_len <= CHUNK_128_BYTES * 10
                   /\ generate_result \in {<<"Some">>, <<"None">>}
             /\ gpc = "panicked" =>
                   /\ generate_result = <<>>
                   /\ \/ /\ generate_args.encoded_header_len > CHUNK_128_BYTES * 10
                         /\ generate_pw.pairs = 0
                      \/ /\ Len(generate_args.pairs) < SignaturesVerified
                         /\ generate_pw.pairs = Len(generate_args.pairs)
             /\ Len(generate_args.pairs) < SignaturesVerified => generate_result = <<>>)
    /\ [][(/\ gpc = "pairs"
           /\ Len(generate_args.pairs) >= SignaturesVerified) => gpc' # "panicked"]_vars
    /\ [][(/\ gpc = "pairs"
           /\ generate_pw.pairs = Len(generate_args.pairs)
           /\ Len(generate_args.pairs) < SignaturesVerified) => gpc' = "panicked"]_vars

C23_EightPairsSevenSet ==
    /\ gpc = "returned"
    /\ Len(generate_args.pairs) = SignaturesVerified + 1
    /\ generate_pw.pairs = SignaturesVerified
    /\ generate_result = <<"None">>

(***************************************************************************)
(* Properties of the validator slots.                                      *)
(***************************************************************************)
\* C29: the circuit has no constraint that relates the public key or the
\* signature of one slot to those of another: no connection, split or
\* range check names a signature or public-key target, and each gadget
\* reads the shared message bits, its own signature and its own key only.
\* So the witness with the valid signature and key of one validator in
\* every slot satisfies every constraint.
C29_SlotsUnrelated ==
    /\ (pc = "done" /\ wpc = "inputs") =>
          /\ \A c \in builder.connects :
                /\ c[1][1] \notin {"eddsa.sig", "eddsa.pub_key"}
                /\ c[2][1] \notin {"eddsa.sig", "eddsa.pub_key"}
          /\ \A sp \in builder.splits : sp[1][1] \notin {"eddsa.sig", "eddsa.pub_key"}
          /\ \A rc \in builder.range_checks : rc[1][1] \notin {"eddsa.sig", "eddsa.pub_key"}
          /\ \A k \in 1..Len(builder.eddsa) :
                /\ builder.eddsa[k].sig = SignatureTarget(k - 1)
                /\ builder.eddsa[k].pub_key = PublicKeyTarget(k - 1)
                /\ \A j \in DOMAIN builder.eddsa[k].msg :
                      builder.eddsa[k].msg[j][1] = "encoded_message.bit"
    /\ (wpc = "proved" /\ perturbed.kind = "pub_keys") =>
          /\ Len(pw.pub_keys) >= 2
          /\ \A k \in DOMAIN pw.pub_keys :
                /\ pw.pub_keys[k] = pw.pub_keys[1]
                /\ pw.signatures[k] = pw.signatures[1]
          /\ proof.satisfied

C29_OnePairInEverySlotProved ==
    /\ wpc = "proved"
    /\ perturbed.kind = "pub_keys"
    /\ num_validators = MaxValidators
    /\ pw.pub_keys[MaxValidators] = pw.pub_keys[1]
    /\ proof.satisfied

(***************************************************************************)
(* Properties of the bytes decode_header reads.                            *)
(***************************************************************************)
\* C30: decode_header reads bytes 0..69 of header_bytes and nothing else:
\* given fewer than 69 bytes it panics, and given 69 or more it returns a
\* parent hash and a state root of 32 targets each, the same for every
\* input with those 69 bytes, whatever header_size is and whatever the
\* bytes after them are.
C30_ReadsFirstSixtyNineBytes ==
    /\ [](dpc = "panicked" => Len(header_bytes_target) < 37 + HASH_SIZE)
    /\ [](dpc = "altered_decoded" =>
             LET offset == 32 + ModeLength(ModeOf(expected_int))
                 encoded == PadZeros(EncodeHeader(expected_parent_hash, expected_int,
                                                  expected_state_root, HeaderRest),
                                     MAX_HEADER_SIZE)
             IN  /\ Len(header_bytes_target) >= 37 + HASH_SIZE
                 /\ header_size_target \in HeaderSizeFills
                 /\ SubSeq(header_bytes_target, 1, 37 + HASH_SIZE)
                       = SubSeq(encoded, 1, 37 + HASH_SIZE)
                 /\ Len(decoded_header.out.parent_hash) = 32
                 /\ Len(decoded_header.out.state_root) = 32
                 /\ decoded_header.out.parent_hash = expected_parent_hash
                 /\ decoded_header.out.block_number = expected_int \o Zeros(4)
                 /\ decoded_header.out.state_root = SubSeq(encoded, offset + 1, offset + 32)
                 /\ decoded_header.satisfied)
    /\ [][dpc = "header_altered" =>
             IF Len(header_bytes_target) < 37 + HASH_SIZE
             THEN dpc' = "panicked" /\ UNCHANGED decoded_header
             ELSE dpc' = "altered_decoded"]_vars

C30_SixtyNineBytesDecoded ==
    /\ dpc = "altered_decoded"
    /\ Len(header_bytes_target) = 37 + HASH_SIZE
    /\ header_size_target = 0
    /\ decoded_header.out.state_root = SubSeq(header_bytes_target, 38, 37 + HASH_SIZE)

====
